---- MODULE Spec2Model ----
(***************************************************************************)
(* DevBed (src/src/index.ts): a wrapper around the Minecraft Bedrock       *)
(* scripting "system" object.  The model covers the event bridge           *)
(* (on/off/once/trigger and the <bedspace>:ev relay), the promise/callback *)
(* bridge (maybe, cmd), the tick-driven timers and the component data      *)
(* helpers, together with the part of the host they talk to: the event     *)
(* registry, the listener list, command execution and the component store. *)
(***************************************************************************)
EXTENDS Integers, Sequences, FiniteSets, TLC

VARIABLES
    version,       \* DevBed.version: [major, minor], the API version targeted
    systemType,    \* instance -> "client" | "server" | "none" (not constructed)
    bedspace,      \* instance -> namespace prefix
    callbacks,     \* instance -> (event name -> sequence of callbacks)
    defaultData,   \* instance -> (custom event name -> default payload)
    ids,           \* instance -> number of ids created so far, minus one
    issued,        \* instance -> the ids getId has returned, in order
    ticks,         \* instance -> updates seen
    intervalled,   \* instance -> (id -> [time, func, passed])
    players,       \* instance -> the usernames in DevBed.players, in order
    playerObj,     \* instance -> (username -> player entity)
    eventData,     \* host: registered event name -> default payload
    listeners,     \* host: sequence of [i, ev] subscriptions (listenForEvent)
    executing,     \* host: commands handed to executeCommand, callback pending
    components,    \* host: entity -> (component id -> component object)
    componentData, \* host: registered component id -> default data
    queries,       \* host: registered queries, [component, filters] each
    promises,      \* promise id -> [state, val, cb]
    microtasks,    \* promise reactions scheduled and not yet run
    calls,         \* user callbacks invoked by the last step, in order
    sent,          \* events handed to broadcastEvent by the last step, in order
    hostCalls,     \* other host functions called by the last step, in order
    ncalls,        \* user callback name -> invocations so far
    err,           \* error raised by the last step ("" when none)
    ret,           \* value returned by the last API call
    lastOp,        \* the last step taken, with its arguments
    timers,        \* timer callback name -> how and when it was registered
    fired,         \* timer callback name -> ticks at which it was invoked
    present,       \* usernames that have joined and not since left
    scoreboard,    \* instance -> (objective name -> value), the proxy's target
    system,        \* instance -> the system object it uses (0: none)
    hooks,         \* system object -> the instance whose closures are its
                   \* initialize, update and shutdown (0: none)
    lastIndex,     \* instance -> lastIndex of scoreboardInvalidRegex
    ops            \* steps taken so far

vars == << version, system, hooks, players, playerObj, present, scoreboard, lastIndex, systemType, bedspace, callbacks, defaultData, ids, issued, ticks,
           intervalled, eventData, listeners, executing, components,
           componentData, queries, promises, microtasks, calls, sent, hostCalls,
           ncalls, err, ret, lastOp,
           timers, fired, ops >>

----------------------------------------------------------------------------
(* Bounds *)

MaxRegs == 3
MaxOffs == 1
MaxTrigs == 2
MaxCmds == 2
MaxComps == 2
MaxCompOps == 3
MaxTicks == 3
MaxTimers == 2
MaxVersion == 2
MaxJoins == 5
MaxSets == 3

Inst == {1, 2}

----------------------------------------------------------------------------
(* Event names.  A name is the triple (namespace, base, number): the string *)
(* "ping" is ("", "ping", -1), "devbed:ev" is ("devbed", "ev", -1) and the  *)
(* generated id `${bedspace}:custom${ids}` is (bedspace, "custom", ids).    *)

Name(ns, base, num) == [ns |-> ns, base |-> base, num |-> num]

Local(base) == Name("", base, -1)

Ns(ns, base) == Name(ns, base, -1)

NoName == Name("", "", -1)

\* name.includes(":")
HasColon(name) == name.ns # ""

\* event.split(" ")
Split(event) ==
    IF event = Local("ping pong") THEN << Local("ping"), Local("pong") >>
    ELSE << event >>

----------------------------------------------------------------------------
(* JavaScript values, tagged by what typeof / _.isPlainObject see. *)

Undef == [t |-> "undef", v |-> 0]

Obj(o) == [t |-> "obj", v |-> o]

Num(n) == [t |-> "num", v |-> n]

Fn(f) == [t |-> "fn", v |-> f]

Str(x) == [t |-> "str", v |-> x]

Arr(x) == [t |-> "arr", v |-> x]

EmptyObj == [k \in {} |-> 0]

\* { ...a, ...b }
Merge(a, b) ==
    [k \in (DOMAIN a) \cup (DOMAIN b) |-> IF k \in DOMAIN b THEN b[k] ELSE a[k]]

\* _.isPlainObject(x) ? x : {}
PlainOrEmpty(x) == IF x.t = "obj" THEN x.v ELSE EmptyObj

Put(f, k, v) == [x \in (DOMAIN f) \cup {k} |-> IF x = k THEN v ELSE f[x]]

Drop(f, k) == [x \in (DOMAIN f) \ {k} |-> f[x]]

\* _.pull(array, value): removes every occurrence, in place
Pull(array, value) == SelectSeq(array, LAMBDA x : x # value)

----------------------------------------------------------------------------
(* Callbacks.  kind "user" is a callback of the caller that only observes   *)
(* its arguments; "responder" is a handler of the caller that calls         *)
(* respond(...); the others are the closures the wrapper itself creates.    *)

CB(kind, name, ev, pid) == [kind |-> kind, name |-> name, ev |-> ev, pid |-> pid]

User(name) == CB("user", name, NoName, 0)

Responder(name) == CB("responder", name, NoName, 0)

\* once(): const handleFire = (...data) => { this.off(event, handleFire); resolve(data) }
HandleFire(event, pid) == CB("handleFire", "", event, pid)

\* constructor: the listener of `${bedspace}:ev`
Relay == CB("relay", "", NoName, 0)

\* the resolve function of promise pid, passed where a callback is expected
Resolver(pid) == CB("resolve", "", NoName, pid)

\* blockAt: () => this.cmd(`testforblock ...`, ({ matches, statusMessage }) => ...)
BlockAtTest(i, coords, pid) ==
    [kind |-> "blockAtTest", name |-> "", ev |-> NoName, pid |-> pid, i |-> i,
     coords |-> coords]

\* blockAt: ({ matches, statusMessage }) => { ...; resolve(...) }
BlockTested(pid) == CB("blockTested", "", NoName, pid)

\* tempLoad: () => { callback(); this.cmd(`tickingarea remove ...`) }
TempLoaded(i, coords, callback) ==
    [kind |-> "tempLoaded", name |-> "", ev |-> NoName, pid |-> 0, i |-> i,
     coords |-> coords, callback |-> callback]

NaN == -1

\* what the responders pass to respond(): h answers {pong: data.n + 1},
\* g answers the number 6
ReplyOf(name, data) ==
    IF name = "h"
    THEN Obj([pong |-> IF "n" \in DOMAIN data THEN data.n + 1 ELSE NaN])
    ELSE Num(6)

----------------------------------------------------------------------------
(* The program state as one record, so that a handler and everything it    *)
(* calls is one function from state to state.                               *)

St ==
    [ version |-> version, system |-> system, hooks |-> hooks, players |-> players, playerObj |-> playerObj,
      present |-> present, scoreboard |-> scoreboard, lastIndex |-> lastIndex,
      systemType |-> systemType, bedspace |-> bedspace, callbacks |-> callbacks,
      defaultData |-> defaultData, ids |-> ids, issued |-> issued, ticks |-> ticks,
      intervalled |-> intervalled, eventData |-> eventData,
      listeners |-> listeners, executing |-> executing,
      components |-> components, componentData |-> componentData,
      queries |-> queries,
      promises |-> promises,
      microtasks |-> microtasks, calls |-> << >>, sent |-> << >>,
      hostCalls |-> << >>,
      ncalls |-> ncalls, err |-> "", ret |-> Undef, lastOp |-> lastOp,
      timers |-> timers, fired |-> fired,
      queue |-> << >>, exc |-> "", iterable |-> EmptyObj, alias |-> FALSE,
      keepsFields |-> FALSE, refuses |-> FALSE ]

Commit(s, op) ==
    /\ version' = s.version
    /\ players' = s.players
    /\ playerObj' = s.playerObj
    /\ present' = s.present
    /\ scoreboard' = s.scoreboard
    /\ system' = s.system
    /\ hooks' = s.hooks
    /\ lastIndex' = s.lastIndex
    /\ systemType' = s.systemType
    /\ bedspace' = s.bedspace
    /\ callbacks' = s.callbacks
    /\ defaultData' = s.defaultData
    /\ ids' = s.ids
    /\ issued' = s.issued
    /\ ticks' = s.ticks
    /\ intervalled' = s.intervalled
    /\ eventData' = s.eventData
    /\ listeners' = s.listeners
    /\ executing' = s.executing
    /\ components' = s.components
    /\ componentData' = s.componentData
    /\ queries' = s.queries
    /\ promises' = s.promises
    /\ microtasks' = s.microtasks
    /\ calls' = s.calls
    /\ sent' = s.sent
    /\ hostCalls' = s.hostCalls
    /\ ncalls' = s.ncalls
    /\ err' = IF s.exc # "" THEN s.exc ELSE s.err
    /\ ret' = IF s.exc # "" THEN Undef ELSE s.ret
    /\ lastOp' = op
    /\ timers' = s.timers
    /\ fired' = s.fired

----------------------------------------------------------------------------
(* Host: event registry and listener list. *)

\* a call of the host function fn, noted in the order the calls are made
HostCall(s, fn, args) == [s EXCEPT !.hostCalls = Append(@, [fn |-> fn, args |-> args])]

\* obj.registerSystem(majorVersion, minorVersion), obj the client or server
\* object of instance i
RegisterSystem(s, i, majorVersion, minorVersion) ==
    HostCall(s, "registerSystem", << i, majorVersion, minorVersion >>)

\* system.registerEventData(name, defaultData)
RegisterEventData(s, name, data) == [s EXCEPT !.eventData = Put(@, name, data)]

\* system.createEventData(name): a fresh payload holding the registered
\* defaults, or null (here: Undef) when the name was never registered
CreateEventData(s, name) ==
    IF name \in DOMAIN s.eventData THEN Obj(s.eventData[name]) ELSE Undef

\* system.listenForEvent(ev, listener)
ListenForEvent(s, i, ev) ==
    HostCall([s EXCEPT !.listeners = Append(@, [i |-> i, ev |-> ev])],
             "listenForEvent", << i, ev >>)

\* system.broadcastEvent(name, eventData): the host takes the event and hands
\* eventData.data to every listener of the name
BroadcastEvent(s, name, data) ==
    [s EXCEPT !.queue = Append(@, [name |-> name, data |-> data]),
              !.sent = Append(@, [name |-> name, data |-> data])]

----------------------------------------------------------------------------
(* Promises (bluebird): resolution is synchronous, reactions run later. *)

\* new Promise(executor), before the executor has resolved it
NewPromise(s) ==
    [s EXCEPT !.promises = Append(@, [state |-> "pending", val |-> Undef, cb |-> Undef,
                                      ran |-> 0, trigs |-> 0])]

\* resolve(val): only the first resolution counts
Resolve(s, pid, val) ==
    IF s.promises[pid].state # "pending" THEN s
    ELSE LET p == s.promises[pid] IN
         [s EXCEPT !.promises[pid] = [p EXCEPT !.state = "resolved", !.val = val],
                   !.microtasks = IF p.cb.t = "fn"
                                  THEN Append(@, [pid |-> pid, cb |-> p.cb.v, val |-> val])
                                  ELSE @]

\* promise.then((val) => cb(val))
Then(s, pid, cb) ==
    LET p == s.promises[pid] IN
    [s EXCEPT !.promises[pid] = [p EXCEPT !.cb = Fn(cb)],
              !.microtasks = IF p.state = "resolved"
                             THEN Append(@, [pid |-> pid, cb |-> cb, val |-> p.val])
                             ELSE @]

\* maybe(cb, promise): the promise when there is no callback, else undefined
\* after chaining the callback onto the promise
Maybe(s, cb, pid) ==
    IF cb.t # "fn" THEN [s EXCEPT !.ret = [t |-> "promise", v |-> pid]]
    ELSE [Then(s, pid, cb.v) EXCEPT !.ret = Undef]

----------------------------------------------------------------------------
(* Event bridge. *)

\* getId(): this.ids++; return `${this.bedspace}:custom${this.ids}`
GetId(s, i) == Name(s.bedspace[i], "custom", s.ids[i] + 1)

\* getId() that leaves the counter as it is
TakeId_NoIncrement(s, i) == [s EXCEPT !.issued[i] = Append(@, GetId(s, i))]

\* the instance after getId(): the counter has moved and the id is out
TakeId(s, i) == [s EXCEPT !.ids[i] = @ + 1, !.issued[i] = Append(@, GetId(s, i))]

\* newEvent(event, defaultData)
NewEvent(s, i, event, data) ==
    IF ~HasColon(event)
    THEN [s EXCEPT !.defaultData[i] = Put(@, event, data)]
    ELSE RegisterEventData(s, event, data)

RECURSIVE OnEach(_, _, _, _, _)
OnEach(s, i, evs, cb, k) ==
    IF k > Len(evs) THEN s
    ELSE LET ev == evs[k]
             s1 == IF ev \in DOMAIN s.callbacks[i] THEN s
                   ELSE LET l == IF HasColon(ev) THEN ListenForEvent(s, i, ev) ELSE s
                        IN [l EXCEPT !.callbacks[i] = Put(@, ev, << >>)]
             s2 == [s1 EXCEPT !.callbacks[i][ev] = Append(@, cb)]
         IN OnEach(s2, i, evs, cb, k + 1)

\* on() that puts the callback in front of the ones registered before
On_Prepends(s, i, event, cb) ==
    LET s1 == OnEach(s, i, Split(event), cb, 1)
        evs == {Split(event)[k] : k \in DOMAIN Split(event)}
    IN [s1 EXCEPT !.callbacks[i] =
           [n \in DOMAIN @ |-> IF n \in evs
                               THEN << cb >> \o SubSeq(@[n], 1, Len(@[n]) - 1)
                               ELSE @[n]]]

\* on(event, callback)
On(s, i, event, cb) == OnEach(s, i, Split(event), cb, 1)

RECURSIVE OffEach(_, _, _, _, _)
OffEach(s, i, evs, cb, k) ==
    IF k > Len(evs) THEN s
    ELSE LET ev == evs[k]
             s1 == IF cb.t = "fn"
                   THEN IF ev \in DOMAIN s.callbacks[i]
                        THEN [s EXCEPT !.callbacks[i][ev] = Pull(@, cb.v)]
                        ELSE s
                   ELSE [s EXCEPT !.callbacks[i] = Put(@, ev, << >>)]
         IN OffEach(s1, i, evs, cb, k + 1)

\* off() that deletes the entry of the name when no callback is given
Off_DeletesEntry(s, i, event, cb) ==
    IF cb.t = "fn" THEN OffEach(s, i, Split(event), cb, 1)
    ELSE [s EXCEPT !.callbacks[i] = [n \in DOMAIN @ \ {Split(event)[k] : k \in DOMAIN Split(event)} |-> @[n]]]

\* off(event, callback?)
Off(s, i, event, cb) == OffEach(s, i, Split(event), cb, 1)

\* once(event, callback?)
Once(s, i, event, cb) ==
    LET pid == Len(s.promises) + 1
        s1 == On(NewPromise(s), i, event, HandleFire(event, pid))
    IN Maybe(s1, cb, pid)

\* the host branch of trigger with the broadcast made twice
TriggerHost_BroadcastsTwice(s, i, name, dataOrCb) ==
    LET created == CreateEventData(s, name)
        blank == CreateEventData(s, Ns(s.bedspace[i], "blank"))
        data == IF created.t = "obj" THEN created.v
                ELSE IF blank.t = "obj" THEN blank.v ELSE EmptyObj
        payload == Merge(data, PlainOrEmpty(dataOrCb))
    IN BroadcastEvent(BroadcastEvent(s, name, payload), name, payload)

\* trigger(name, dataOrCb, callback), the branch for names containing ":"
TriggerHost(s, i, name, dataOrCb) ==
    LET created == CreateEventData(s, name)
        blank == CreateEventData(s, Ns(s.bedspace[i], "blank"))
        data == IF created.t = "obj" THEN created.v
                ELSE IF blank.t = "obj" THEN blank.v ELSE EmptyObj
    IN BroadcastEvent(s, name, Merge(data, PlainOrEmpty(dataOrCb)))

\* trigger() that forgets to listen for the reply
Trigger_NoReplyListener(s, i, name, dataOrCb, callback) ==
    IF ~HasColon(name)
    THEN LET id == GetId(s, i)
             s1 == TakeId(s, i)
             s2 == NewEvent(s1, i, id, EmptyObj)
             dflt == IF name \in DOMAIN s.defaultData[i]
                     THEN s.defaultData[i][name] ELSE EmptyObj
         IN TriggerHost(s2, i, Ns(s.bedspace[i], "ev"),
                        Obj([sendName |-> name,
                             data |-> Merge(dflt, PlainOrEmpty(dataOrCb)),
                             id |-> id]))
    ELSE TriggerHost(s, i, name, dataOrCb)

\* trigger(name, dataOrCb, callback)
Trigger(s, i, name, dataOrCb, callback) ==
    IF ~HasColon(name)
    THEN LET id == GetId(s, i)
             s1 == TakeId(s, i)
             s2 == NewEvent(s1, i, id, EmptyObj)
             s3 == IF callback.t = "fn"
                   THEN On(s2, i, id, IF dataOrCb.t = "fn" THEN dataOrCb.v ELSE callback.v)
                   ELSE s2
             dflt == IF name \in DOMAIN s.defaultData[i]
                     THEN s.defaultData[i][name] ELSE EmptyObj
         IN TriggerHost(s3, i, Ns(s.bedspace[i], "ev"),
                        Obj([sendName |-> name,
                             data |-> Merge(dflt, PlainOrEmpty(dataOrCb)),
                             id |-> id]))
    ELSE TriggerHost(s, i, name, dataOrCb)

\* a user callback runs: it is observed, nothing else happens
Observe(s, i, cb, data, respond) ==
    [s EXCEPT !.calls = Append(@, [i |-> i, cb |-> cb.name, data |-> data,
                                   respond |-> respond # NoName]),
              !.ncalls[cb.name] = @ + 1]

----------------------------------------------------------------------------
(* Commands.  A string is the sequence of its tokens: "/say hi" is          *)
(* <<"/", "say", "hi">> and "c:hello" is <<"c:", "hello">>.                 *)

Nameable == Ns("minecraft", "nameable")

Position == Ns("minecraft", "position")

\* the object the host hands out for a component of an entity: its content
\* is under the "data" field (comp.data in getComponent and radius)
HostComponent(id, data) == [type |-> "component", identifier |-> id, data |-> data]

\* system.getComponent(ent, id): the component object, or null (Undef)
HostGetComponent(s, ent, id) ==
    IF ent \in DOMAIN s.components /\ id \in DOMAIN s.components[ent]
    THEN Obj(s.components[ent][id]) ELSE Undef

\* system.executeCommand(command, callback): the host runs the command and
\* calls back later
HostExecuteCommand(s, i, command, pid) ==
    HostCall([s EXCEPT !.executing = Append(@, [i |-> i, command |-> command, pid |-> pid])],
             "executeCommand", << i, command >>)

\* command.startsWith(prefix) ? command.slice(prefix.length) : command
StripPrefix(command, prefix) ==
    IF command # << >> /\ Head(command) = prefix THEN Tail(command) ELSE command

RECURSIVE Cmd(_, _, _, _, _)
RECURSIVE CmdAs(_, _, _, _, _, _)

\* callbackOrAs.map((username) => this.cmd(..., resolve))
CmdAs(s, i, command, users, pid, k) ==
    IF k > Len(users) THEN s
    ELSE LET text == IF command # << >> /\ Head(command) = "c:"
                     THEN << "tellraw", "@a", users[k] >> \o Tail(command)
                     ELSE << "execute", users[k], "~", "~", "~" >> \o command
         IN CmdAs(Cmd(s, i, Str(text), Fn(Resolver(pid)), Undef),
                  i, command, users, pid, k + 1)

\* cmd(command, callbackOrAs, callback)
Cmd(s, i, command, callbackOrAs, callback) ==
    IF s.systemType[i] # "server"
    THEN [Trigger(s, i, Ns(s.bedspace[i], "executeCommand"),
                  Obj([command |-> command, callbackOrAs |-> callbackOrAs,
                       callback |-> callback, player |-> "player"]), Undef)
          EXCEPT !.ret = Undef]
    ELSE LET pid == Len(s.promises) + 1
             s1 == NewPromise(s)
             s2 == IF callbackOrAs.t \in {"str", "arr"}
                   THEN CmdAs(s1, i, StripPrefix(command.v, "/"),
                              IF callbackOrAs.t = "arr" THEN callbackOrAs.v
                              ELSE << callbackOrAs.v >>, pid, 1)
                   ELSE HostExecuteCommand(s1, i, command.v, pid)
         IN Maybe(s2, IF callbackOrAs.t = "fn" THEN callbackOrAs ELSE callback, pid)

\* a listener of `${bedspace}:executeCommand` that does nothing
OnExecuteCommand_Ignores(s, i, data) == s

\* the constructor's listener of `${bedspace}:executeCommand`
OnExecuteCommand(s, i, data) ==
    IF data.callbackOrAs.t # "fn"
    THEN Cmd(s, i, data.command, data.callbackOrAs, data.callback)
    ELSE LET comp == HostGetComponent(s, data.player, Nameable) IN
         IF comp.t # "obj" THEN [s EXCEPT !.exc = "ReferenceError"]
         ELSE Cmd(s, i, data.command, Str(comp.v.data.v.name), data.callback)

----------------------------------------------------------------------------
(* The scoreboard proxy.  An objective name is the sequence of its          *)
(* characters.                                                              *)

\* the characters of /[,:()\r\n"%\0 ]/
InvalidChars == {",", ":", "(", ")", "CR", "LF", "\"", "%", "NUL", " "}

\* scoreboardInvalidRegex.test(name): the regular expression has the g flag,
\* so the search starts at lastIndex; a match leaves lastIndex behind the
\* matched character, a failure resets it to 0
RegexTest(name, from) ==
    LET hits == {m \in from + 1 .. Len(name) : name[m] \in InvalidChars}
    IN IF hits = {} THEN [matched |-> FALSE, lastIndex |-> 0]
       ELSE [matched |-> TRUE, lastIndex |-> CHOOSE m \in hits : \A h \in hits : m <= h]

RECURSIVE SetPlayers(_, _, _, _, _)
\* _.forOwn(val.players, (v, n) => this.cmd(`scoreboard players set ${n} ${name} ${v}`))
SetPlayers(s, i, name, pairs, k) ==
    IF k > Len(pairs) THEN s
    ELSE SetPlayers(Cmd(s, i, Str(<< "scoreboard", "players", "set", pairs[k].n, name,
                                     ToString(pairs[k].v) >>), Undef, Undef),
                    i, name, pairs, k + 1)

\* scoreboard[name] = val (the set trap of the proxy); name is an own
\* property of the target after Reflect.set, and a string
ScoreboardSet(s, i, name, val) ==
    LET s1 == [s EXCEPT !.scoreboard[i] = Put(@, name, val)]
        r == RegexTest(name, s.lastIndex[i])
        s2 == [s1 EXCEPT !.lastIndex[i] = r.lastIndex]
        s3 == Cmd(s2, i, Str(<< "scoreboard", "objectives", "add", name, "dummy",
                                IF "name" \in DOMAIN val THEN val.name ELSE "" >>),
                  Undef, Undef)
        s4 == IF "display" \notin DOMAIN val THEN s3
              ELSE IF val.display = "belowname"
              THEN Cmd(s3, i, Str(<< "scoreboard", "objectives", "setdisplay", val.display,
                                     name >>), Undef, Undef)
              ELSE Cmd(s3, i, Str(<< "scoreboard", "objectives", "setdisplay", val.display,
                                     name, val.order >>), Undef, Undef)
        s5 == IF "players" \in DOMAIN val THEN SetPlayers(s4, i, name, val.players, 1) ELSE s4
    IN IF Len(name) > 16 THEN [s1 EXCEPT !.exc = "TypeError"]
       ELSE IF r.matched THEN [s2 EXCEPT !.exc = "TypeError"]
       ELSE [s5 EXCEPT !.ret = s.ret]

\* the constructor's listener of `${bedspace}:playerJoined`
OnPlayerJoined(s, i, data) ==
    LET comp == HostGetComponent(s, data.player, Nameable) IN
    IF comp.t # "obj" THEN [s EXCEPT !.exc = "ReferenceError"]
    ELSE LET username == comp.v.data.v.name
             s1 == [s EXCEPT !.players[i] = Append(@, username),
                             !.playerObj[i] = Put(@, username, data.player)]
         IN Trigger(s1, i, Local("player_joined"),
                    Obj([username |-> username, player |-> data.player]), Undef)

\* _.omit(object, key): a new object without the key; the argument is not
\* changed
Omit(object, key) == [k \in DOMAIN object \ {key} |-> object[k]]

\* the constructor's listener of `${bedspace}:playerLeft`; the result of
\* _.omit(this.playerObj, username) is dropped
OnPlayerLeft(s, i, data) ==
    LET comp == HostGetComponent(s, data.player, Nameable) IN
    IF comp.t # "obj" THEN [s EXCEPT !.exc = "ReferenceError"]
    ELSE LET username == comp.v.data.v.name
             omitted == Omit(s.playerObj[i], username)
             s1 == [s EXCEPT !.players[i] = Pull(@, username)]
         IN Trigger(s1, i, Local("player_left"),
                    Obj([username |-> username, player |-> data.player]), Undef)

\* getPlayer(username)
GetPlayer(s, i, username) ==
    IF username \in DOMAIN s.playerObj[i] THEN Str(s.playerObj[i][username]) ELSE Undef

----------------------------------------------------------------------------
(* Block queries. *)

\* `${n}` for a coordinate
Tok(n) == ToString(n)

\* the tokens that fit .+,.+,.+ and .+\)\. in the messages of the host
CommaTokens == {"0,0,0", "1,2,3"}

ExpectedTokens == {"Air)."}

\* statusMessage.match(/The block at .+,.+,.+ is (.+) \(expected .+\)\./):
\* the captured group, or null (Undef)
MatchBlock(m) ==
    LET ks == {k \in 1 .. Len(m) - 7 :
                 /\ << m[k], m[k + 1], m[k + 2] >> = << "The", "block", "at" >>
                 /\ m[k + 3] \in CommaTokens
                 /\ m[k + 4] = "is"
                 /\ m[k + 6] = "(expected"
                 /\ m[k + 7] \in ExpectedTokens}
    IN IF ks = {} THEN Undef ELSE Str(m[(CHOOSE k \in ks : \A j \in ks : k <= j) + 5])

\* the callback blockAt gives to cmd
OnBlockTested(s, pid, data) ==
    LET res == MatchBlock(data.v.statusMessage)
    IN IF data.v.matches THEN Resolve(s, pid, Str("Air"))
       ELSE IF res.t # "undef" THEN Resolve(s, pid, res)
       ELSE Resolve(s, pid, Undef)

\* coords[k] || coords[j]
OrCoord(coords, k, j) == IF k <= Len(coords) /\ coords[k] # 0 THEN coords[k] ELSE coords[j]

\* tempLoad(coords, callback)
TempLoad(s, i, coords, callback) ==
    Cmd(s, i, Str(<< "tickingarea", "add", Tok(coords[1]), Tok(coords[2]), Tok(coords[3]),
                     Tok(OrCoord(coords, 4, 1)), Tok(OrCoord(coords, 5, 2)),
                     Tok(OrCoord(coords, 6, 3)) >>),
        Fn(TempLoaded(i, coords, callback)), Undef)

\* blockAt(coords, callback)
BlockAt(s, i, coords, callback) ==
    LET pid == Len(s.promises) + 1
        s1 == TempLoad(NewPromise(s), i, coords, BlockAtTest(i, coords, pid))
    IN Maybe(s1, callback, pid)

RECURSIVE CallEach(_, _, _, _, _, _, _)
RECURSIVE Invoke(_, _, _, _, _)

\* cb(...data) for each kind of callback
Invoke(s, i, cb, data, respond) ==
    CASE cb.kind = "user" -> Observe(s, i, cb, data, respond)
      [] cb.kind = "responder" ->
            LET s1 == Observe(s, i, cb, data, respond) IN
            IF respond = NoName THEN [s1 EXCEPT !.exc = "TypeError"]
            ELSE Trigger(s1, i, respond, ReplyOf(cb.name, data), Undef)
      [] cb.kind = "handleFire" ->
            Resolve(Off(s, i, cb.ev, Fn(cb)), cb.pid,
                    [t |-> "args", v |-> data, respond |-> respond # NoName])
      [] cb.kind = "relay" ->
            LET n == IF data.sendName \in DOMAIN s.callbacks[i]
                     THEN Len(s.callbacks[i][data.sendName]) ELSE 0
            IN CallEach(s, i, data.sendName, data.data, data.id, 1, n)
      [] cb.kind = "resolve" -> Resolve(s, cb.pid, data)
      [] cb.kind = "executeCommand" ->
            [OnExecuteCommand(s, i, data) EXCEPT !.ret = s.ret]
      [] cb.kind = "enteredWorld" ->
            Trigger(s, i, Ns(s.bedspace[i], "playerJoined"), Obj(data), Undef)
      [] cb.kind = "playerJoined" -> OnPlayerJoined(s, i, data)
      [] cb.kind = "playerLeft" -> OnPlayerLeft(s, i, data)
      [] cb.kind = "tempLoaded" ->
            LET s1 == Invoke(s, cb.i, cb.callback, Undef, NoName)
            IN [Cmd(s1, cb.i, Str(<< "tickingarea", "remove", Tok(cb.coords[1]),
                                     Tok(cb.coords[2]), Tok(cb.coords[3]) >>), Undef, Undef)
                EXCEPT !.ret = s.ret]
      [] cb.kind = "blockAtTest" ->
            [Cmd(s, cb.i, Str(<< "testforblock", Tok(cb.coords[1]), Tok(cb.coords[2]),
                                 Tok(cb.coords[3]), "Air" >>), Fn(BlockTested(cb.pid)), Undef)
             EXCEPT !.ret = s.ret]
      [] cb.kind = "blockTested" -> OnBlockTested(s, cb.pid, data)
      [] OTHER -> s

\* callEachCallback(name, ...data): callbacks.map(cb => cb(...data)).  map
\* fixes the length when it starts and then reads the live array, skipping
\* an index that no longer exists.
CallEach(s, i, name, data, respond, k, len) ==
    IF k > len \/ s.exc # "" THEN s
    ELSE LET arr == s.callbacks[i][name] IN
         IF k > Len(arr) THEN CallEach(s, i, name, data, respond, k + 1, len)
         ELSE CallEach(Invoke(s, i, arr[k], data, respond), i, name, data, respond, k + 1, len)

\* callEachCallback(name, ...data)
CallEachCallback(s, i, name, data, respond) ==
    IF name \in DOMAIN s.callbacks[i]
    THEN CallEach(s, i, name, data, respond, 1, Len(s.callbacks[i][name]))
    ELSE s

\* the host runs one listener; an exception ends that listener only
RunListener(s, l, ev) ==
    LET r == CallEachCallback(s, l.i, ev.name, ev.data, NoName)
    IN [r EXCEPT !.err = IF r.exc # "" THEN r.exc ELSE @, !.exc = ""]

RECURSIVE RunListeners(_, _, _, _)
RunListeners(s, ls, ev, k) ==
    IF k > Len(ls) THEN s
    ELSE RunListeners(IF ls[k].ev = ev.name THEN RunListener(s, ls[k], ev) ELSE s,
                      ls, ev, k + 1)

\* the host delivers the events handed to broadcastEvent, oldest first
RECURSIVE Deliver(_)
Deliver(s) ==
    IF s.queue = << >> THEN s
    ELSE LET ev == Head(s.queue)
             s1 == [s EXCEPT !.queue = Tail(@)]
         IN Deliver(RunListeners(s1, s1.listeners, ev, 1))

----------------------------------------------------------------------------
(* Chat and the constructor. *)

ChatEvent == Ns("minecraft", "display_chat_event")

ConflictMessage == "Conflict detected"

\* chat(...message)
Chat(s, i, message) == TriggerHost(s, i, ChatEvent, Obj([message |-> message]))

\* the closures the constructor registers
EnteredWorld == CB("enteredWorld", "", NoName, 0)

PlayerJoined == CB("playerJoined", "", NoName, 0)

PlayerLeft == CB("playerLeft", "", NoName, 0)

ExecuteCommand == CB("executeCommand", "", NoName, 0)

\* the constructor from `this.bedspace = bedspace` on: the three hooks of
\* the system object are assigned, then the events are set up
Wire(s, i, bs) ==
    LET type == s.systemType[i]
        s0 == [s EXCEPT !.bedspace[i] = bs, !.hooks[s.system[i]] = i]
        s1 == IF type = "server" /\ CreateEventData(s0, Ns(bs, "DevBedEvent")).t = "obj"
              THEN Chat(s0, i, ConflictMessage) ELSE s0
        s2 == NewEvent(s1, i, Ns(bs, "DevBedEvent"), [isDevBed |-> TRUE])
        s3 == NewEvent(s2, i, Ns(bs, "ev"), [sendName |-> "", id |-> "", data |-> EmptyObj])
        s4 == On(s3, i, Ns(bs, "ev"), Relay)
        s5 == NewEvent(s4, i, Ns(bs, "blank"), EmptyObj)
        s6 == NewEvent(s5, i, Ns(bs, "playerJoined"), [player |-> EmptyObj])
        s7 == NewEvent(s6, i, Ns(bs, "playerLeft"), [player |-> EmptyObj])
        s8 == IF type = "client"
              THEN On(s7, i, Ns("minecraft", "client_entered_world"), EnteredWorld)
              ELSE s7
        s9 == IF type = "server"
              THEN On(On(s8, i, Ns(bs, "playerJoined"), PlayerJoined),
                      i, Ns(bs, "playerLeft"), PlayerLeft)
              ELSE s8
        s10 == NewEvent(s9, i, Ns(bs, "executeCommand"), EmptyObj)
    IN IF type = "server" THEN On(s10, i, Ns(bs, "executeCommand"), ExecuteCommand)
       ELSE s10

\* the constructor without its conflict check
Construct_NoConflictCheck(s, i, type, bs) ==
    LET s0 == [RegisterSystem(s, i, s.version.minor, s.version.major)
                 EXCEPT !.systemType[i] = type, !.system[i] = i, !.hooks[i] = i,
                        !.bedspace[i] = bs]
        s1 == s0
        s2 == NewEvent(s1, i, Ns(bs, "DevBedEvent"), [isDevBed |-> TRUE])
        s3 == NewEvent(s2, i, Ns(bs, "ev"), [sendName |-> "", id |-> "", data |-> EmptyObj])
        s4 == On(s3, i, Ns(bs, "ev"), Relay)
        s5 == NewEvent(s4, i, Ns(bs, "blank"), EmptyObj)
        s6 == NewEvent(s5, i, Ns(bs, "playerJoined"), [player |-> EmptyObj])
        s7 == NewEvent(s6, i, Ns(bs, "playerLeft"), [player |-> EmptyObj])
        s8 == IF type = "client"
              THEN On(s7, i, Ns("minecraft", "client_entered_world"), EnteredWorld)
              ELSE s7
        s9 == IF type = "server"
              THEN On(On(s8, i, Ns(bs, "playerJoined"), PlayerJoined),
                      i, Ns(bs, "playerLeft"), PlayerLeft)
              ELSE s8
        s10 == NewEvent(s9, i, Ns(bs, "executeCommand"), EmptyObj)
    IN IF type = "server" THEN On(s10, i, Ns(bs, "executeCommand"), ExecuteCommand)
       ELSE s10

\* new DevBed({ bedspace, obj }) for a client or server object: registerSystem
\* hands out a new system object, then the constructor sets it up
Construct(s, i, type, bs) ==
    Wire([RegisterSystem(s, i, s.version.minor, s.version.major)
          EXCEPT !.systemType[i] = type, !.system[i] = i], i, bs)

\* new DevBed({ bedspace, obj }) for obj the DevBed instance j, or the system
\* object of j: the new instance takes over that system object
ConstructFrom(s, i, j, bs) ==
    Wire([s EXCEPT !.systemType[i] = s.systemType[j], !.system[i] = s.system[j]], i, bs)

----------------------------------------------------------------------------
(* Component helpers. *)

\* system.registerComponent(id, data); a host that refuses registers nothing
\* and returns null
HostRegisterComponent(s, id, data) ==
    HostCall(IF s.refuses THEN s ELSE [s EXCEPT !.componentData = Put(@, id, data)],
             "registerComponent", << id >>)

\* the names the host gives the entities it creates, in order
Spawned == << "mob1", "mob2", "mob3", "mob4", "mob5" >>

\* the entity the next system.createEntity returns
NextEntity(s) == Spawned[Cardinality(DOMAIN s.components \cap {Spawned[k] : k \in DOMAIN Spawned}) + 1]

\* system.createEntity(type, identifier): a new entity without components;
\* a host that refuses creates nothing and returns null
HostCreateEntity(s, entityType, identifier) ==
    HostCall(IF s.refuses THEN s
             ELSE [s EXCEPT !.components = Put(@, NextEntity(s), EmptyObj)],
             "createEntity", << entityType, identifier >>)

\* system.registerQuery(component, f1, f2, f3); null from a host that refuses
HostRegisterQuery(s, component) ==
    HostCall(IF s.refuses THEN s
             ELSE [s EXCEPT !.queries = Append(@, [component |-> component, filters |-> {}])],
             "registerQuery", << component >>)

\* system.addFilterToQuery(query, identifier)
HostAddFilterToQuery(s, q, identifier) ==
    HostCall([s EXCEPT !.queries[q].filters = @ \cup {identifier}],
             "addFilterToQuery", << q, identifier >>)

\* system.getEntitiesFromQuery(query, ...bounds): the entities that hold the
\* query's component and every filter component, inside the bounds
\* <<x1, x2, y1, y2, z1, z2>> when they are given; null from a host that
\* refuses
HostGetEntitiesFromQuery(s, q, box) ==
    IF s.refuses \/ q \notin DOMAIN s.queries THEN Undef
    ELSE [t |-> "ents",
          v |-> {e \in DOMAIN s.components :
                   /\ {s.queries[q].component} \cup s.queries[q].filters
                         \subseteq DOMAIN s.components[e]
                   /\ box.t = "arr" =>
                         LET pos == s.components[e][s.queries[q].component].data.v
                         IN /\ box.v[1] <= pos.x /\ pos.x <= box.v[2]
                            /\ box.v[3] <= pos.y /\ pos.y <= box.v[4]
                            /\ box.v[5] <= pos.z /\ pos.z <= box.v[6]}]

\* system.hasComponent(ent, id)
HostHasComponent(s, ent, id) == ent \in DOMAIN s.components /\ id \in DOMAIN s.components[ent]

\* system.createComponent(ent, id): the entity gets the component with the
\* registered default data; an entity that has it keeps what it has
HostCreateComponent(s, ent, id) ==
    HostCall(IF id \in DOMAIN s.componentData /\ ent \in DOMAIN s.components
                /\ ~HostHasComponent(s, ent, id)
             THEN [s EXCEPT !.components[ent] =
                       Put(@, id, HostComponent(id, s.componentData[id]))]
             ELSE s,
             "createComponent", << ent, id >>)

\* system.applyComponentChanges(ent, comp): the host takes over comp.data.
\* What it does with fields it does not know is the host's business: it
\* drops them, or (keepsFields) keeps the object as handed in.
HostApplyComponentChanges(s, ent, comp) ==
    IF comp.t = "obj" /\ DOMAIN HostComponent(NoName, Undef) \subseteq DOMAIN comp.v
       /\ HostHasComponent(s, ent, comp.v.identifier)
    THEN HostCall([s EXCEPT !.components[ent][comp.v.identifier] =
                       IF s.keepsFields THEN comp.v
                       ELSE HostComponent(comp.v.identifier, comp.v.data)],
                  "applyComponentChanges", << ent >>)
    ELSE HostCall(s, "applyComponentChanges", << ent >>)

\* system.destroyComponent(ent, id)
HostDestroyComponent(s, ent, id) ==
    HostCall(IF HostHasComponent(s, ent, id)
             THEN [s EXCEPT !.components[ent] = Drop(@, id)] ELSE s,
             "destroyComponent", << ent, id >>)

\* the transform functions callers pass to data(): SetHp is
\* (c) => ({ ...c, data: { ...c.data, hp: 2 } })
SetHp == "setHp"

ApplyFn(f, data) ==
    IF f = SetHp /\ data.t = "obj" /\ "data" \in DOMAIN data.v /\ data.v.data.t = "obj"
    THEN Obj(Put(data.v, "data", Obj(Put(data.v.data.v, "hp", 2))))
    ELSE data

\* parseTransform(data, transform)
ParseTransform(data, transform) ==
    IF data.t = "arr" /\ transform.t = "arr" THEN Arr(data.v \o transform.v)
    ELSE IF data.t = "obj" /\ transform.t = "obj" THEN Obj(Merge(data.v, transform.v))
    ELSE IF transform.t = "fn" THEN ApplyFn(transform.v, data)
    ELSE Undef

\* component(data): the handle is the id the methods close over
Component(s, i, data) ==
    LET id == GetId(s, i)
        s1 == TakeId(s, i)
    IN IF s.refuses
       THEN [HostRegisterComponent(s1, id, data) EXCEPT !.exc = "ReferenceError"]
       ELSE [HostRegisterComponent(s1, id, data) EXCEPT !.ret = Str(id)]

\* add without the test of existsOk
ComponentAdd_NoExistsCheck(s, id, ent, existsOk) == HostCreateComponent(s, ent, id)

\* handle.add(ent, existsOk)
ComponentAdd(s, id, ent, existsOk) ==
    IF ~existsOk /\ HostHasComponent(s, ent, id)
    THEN [s EXCEPT !.exc = "TypeError"]
    ELSE HostCreateComponent(s, ent, id)

\* handle.has(ent)
ComponentHas(s, id, ent) == [s EXCEPT !.ret = Str(IF HostHasComponent(s, ent, id) THEN "true" ELSE "false")]

\* handle.data(ent, data)
ComponentData(s, id, ent, data) ==
    LET curr == HostGetComponent(s, ent, id)
    IN IF data.t = "undef" THEN [s EXCEPT !.ret = curr]
       ELSE IF curr.t = "undef" THEN [s EXCEPT !.exc = "ReferenceError"]
       ELSE HostApplyComponentChanges(s, ent, ParseTransform(curr, data))

\* handle.reload(ent)
ComponentReload(s, id, ent) ==
    LET comp == HostGetComponent(s, ent, id)
    IN IF comp.t # "undef" THEN HostApplyComponentChanges(s, ent, comp)
       ELSE [s EXCEPT !.exc = "ReferenceError"]

\* handle.remove(ent)
ComponentRemove(s, id, ent) == HostDestroyComponent(s, ent, id)

\* getComponent(id, ent): the component's data, with data(d) bound to ent
GetComponent(s, id, ent) ==
    LET comp == HostGetComponent(s, ent, id)
    IN IF comp.t = "undef" \/ comp.v.data.t = "undef"
       THEN [s EXCEPT !.exc = "ReferenceError"]
       ELSE [s EXCEPT !.ret = comp.v.data]

\* createEntity that hands on what the host returned
CreateEntity_NoNullCheck(s, entityType, identifier) ==
    [HostCreateEntity(s, entityType, identifier)
     EXCEPT !.ret = IF s.refuses THEN Undef ELSE Str(NextEntity(s))]

\* createEntity(entityType, identifier)
CreateEntity(s, entityType, identifier) ==
    IF s.refuses
    THEN [HostCreateEntity(s, entityType, identifier) EXCEPT !.exc = "ReferenceError"]
    ELSE [HostCreateEntity(s, entityType, identifier) EXCEPT !.ret = Str(NextEntity(s))]

\* entity(identifier)
Entity(s, identifier) == CreateEntity(s, "entity", identifier)

\* item(identifier)
Item(s, identifier) == CreateEntity(s, "item_entity", identifier)

\* query(component, fields): the handle is the query's number
Query(s, component) ==
    IF s.refuses
    THEN [HostRegisterQuery(s, component) EXCEPT !.exc = "ReferenceError"]
    ELSE [HostRegisterQuery(s, component) EXCEPT !.ret = Num(Len(s.queries) + 1)]

\* handle.filter(identifier)
QueryFilter(s, q, identifier) == HostAddFilterToQuery(s, q, identifier)

\* handle.search(cfields)
QuerySearch(s, q, cfields) ==
    [HostCall(s, "getEntitiesFromQuery", << q >>)
     EXCEPT !.ret = HostGetEntitiesFromQuery(s, q, cfields)]

\* radius(ent, radius)
Radius(s, ent, radius) ==
    LET s1 == HostRegisterQuery(s, Position)
        spacialQuery == IF s.refuses THEN Undef ELSE Num(Len(s1.queries))
        comp == HostGetComponent(s1, ent, Position)
    IN IF comp.t = "undef" \/ spacialQuery.t = "undef" THEN [s1 EXCEPT !.ret = Undef]
       ELSE LET pos == comp.v.data.v
                bounds == Arr(<< pos.x - radius, pos.x + radius, pos.y - radius,
                                 pos.y + radius, pos.z - radius, pos.z + radius >>)
            IN [HostCall(s1, "getEntitiesFromQuery", << spacialQuery.v >>)
                EXCEPT !.ret = HostGetEntitiesFromQuery(s1, spacialQuery.v, bounds)]

----------------------------------------------------------------------------
(* Timers. *)

RECURSIVE SortedKeys(_)
\* the own keys of an object with integer keys, in ascending order
SortedKeys(f) ==
    IF DOMAIN f = {} THEN << >>
    ELSE LET m == CHOOSE x \in DOMAIN f : \A y \in DOMAIN f : x <= y
         IN << m >> \o SortedKeys(Drop(f, m))

\* +_.findLastKey(this.intervalled) + 1 || 0
NextTimerId(tbl) ==
    IF DOMAIN tbl = {} THEN 0
    ELSE (CHOOSE x \in DOMAIN tbl : \A y \in DOMAIN tbl : y <= x) + 1

\* Math.round(time / 1000 * 20)
MsToTicks(time) == (time * 20 + 500) \div 1000

Tick(name) == CB("tick", name, NoName, 0)

\* setTimeout(): const func = () => { this.clearInterval(data.id); cb() }
TimeoutFunc(name, id) == CB("timeout", name, NoName, id)

\* a callback of the caller that calls clearInterval(target), or
\* clearInterval() when the target is AllTimers
AllTimers == -1

Clearer(name, target) == CB("clearer", name, NoName, target)

\* setInterval(cb, time, type)
SetInterval(s, i, func, time, type) ==
    LET id == NextTimerId(s.intervalled[i]) IN
    [s EXCEPT !.intervalled[i] =
                  Put(@, id, [time |-> IF type = "ms" THEN MsToTicks(time) ELSE time,
                              func |-> func, passed |-> 0]),
              !.ret = Num(id)]

\* clearInterval(id?)
ClearInterval(s, i, id) ==
    IF id.t # "num" \/ id.v = 0
    THEN [s EXCEPT !.intervalled[i] = EmptyObj, !.alias = FALSE]
    ELSE [s EXCEPT !.intervalled[i] = Drop(@, id.v),
                   !.iterable = IF s.alias THEN Drop(@, id.v) ELSE @]

\* setTimeout(cb, time, type)
SetTimeout(s, i, name, time, type) ==
    SetInterval(s, i, TimeoutFunc(name, NextTimerId(s.intervalled[i])), time, type)

\* setImmediate(cb)
SetImmediate(s, i, name) == SetTimeout(s, i, name, 0, "ms")

\* a timer callback runs
Fire(s, i, name) ==
    [s EXCEPT !.fired[name] = @ \cup {s.ticks[i]},
              !.calls = Append(@, [i |-> i, cb |-> ToString(name), data |-> EmptyObj,
                                   respond |-> FALSE])]

\* func() of an interval entry
InvokeTimer(s, i, func) ==
    CASE func.kind = "timeout" -> Fire(ClearInterval(s, i, Num(func.pid)), i, func.name)
      [] func.kind = "clearer" ->
            ClearInterval(Fire(s, i, func.name), i,
                          IF func.pid = AllTimers THEN Undef ELSE Num(func.pid))
      [] OTHER -> Fire(s, i, func.name)

RECURSIVE ForOwn(_, _, _, _)
\* _.forOwn(this.intervalled, ({ time, func }, id) => { ... }): the keys and
\* the object are fixed when the loop starts; the body reads the live table
ForOwn(s, i, keys, k) ==
    IF k > Len(keys) \/ s.exc # "" THEN s
    ELSE LET id == keys[k] IN
         IF id \notin DOMAIN s.iterable \/ id \notin DOMAIN s.intervalled[i]
         THEN [s EXCEPT !.exc = "TypeError"]
         ELSE LET e == s.iterable[id]
                  p == s.intervalled[i][id].passed + 1
                  s1 == [s EXCEPT !.intervalled[i][id].passed = IF p >= e.time THEN 0 ELSE p]
              IN ForOwn(IF p >= e.time THEN InvokeTimer(s1, i, e.func) ELSE s1,
                        i, keys, k + 1)

\* system.initialize
Initialize(s, i) == CallEachCallback(s, i, Local("initialize"), EmptyObj, NoName)

\* system.shutdown, localPlayer being obj.local_player
Shutdown(s, i, localPlayer) ==
    LET s1 == IF s.systemType[i] = "client"
              THEN Trigger(s, i, Ns(s.bedspace[i], "playerLeft"),
                           Obj([player |-> localPlayer]), Undef)
              ELSE s
    IN IF s1.exc # "" THEN s1
       ELSE CallEachCallback(s1, i, Local("shutdown"), EmptyObj, NoName)

\* system.update
Update(s, i) ==
    LET s1 == [s EXCEPT !.ticks[i] = @ + 1]
        s2 == IF s1.ticks[i] = 1
              THEN CallEachCallback(s1, i, Local("first_tick"), EmptyObj, NoName)
              ELSE s1
        s3 == [s2 EXCEPT !.iterable = s2.intervalled[i], !.alias = TRUE]
        s4 == ForOwn(s3, i, SortedKeys(s3.iterable), 1)
    IN IF s4.exc # "" THEN s4
       ELSE CallEachCallback(s4, i, Local("update"), EmptyObj, NoName)

----------------------------------------------------------------------------
(* Initial states. *)

UserNames == {"c", "d", "e", "h", "r", "k"}

TimerNames == 1 .. MaxTimers

NoTimer == [kind |-> "none", id |-> 0, at |-> 0, time |-> 0, unit |-> "", cleared |-> FALSE]

Op(op, i, args) == [op |-> op, i |-> i, args |-> args]

\* the entities of the world and their components: one player, named steve
World ==
    Put(Put(EmptyObj, "pig", EmptyObj),
        "player", Put(Put(EmptyObj, Nameable, HostComponent(Nameable, Obj([name |-> "steve"]))),
                      Position, HostComponent(Position, Obj([x |-> 0, y |-> 0, z |-> 0]))))

\* the host before any script has run, and no wrapper constructed
Fresh ==
    [ version |-> [major |-> 0, minor |-> 0],
      players |-> [i \in Inst |-> << >>], playerObj |-> [i \in Inst |-> EmptyObj],
      present |-> {},
      system |-> [i \in Inst |-> 0], hooks |-> [sys \in Inst |-> 0],
      scoreboard |-> [i \in Inst |-> EmptyObj], lastIndex |-> [i \in Inst |-> 0],
      systemType |-> [i \in Inst |-> "none"], bedspace |-> [i \in Inst |-> ""],
      callbacks |-> [i \in Inst |-> EmptyObj],
      defaultData |-> [i \in Inst |-> EmptyObj],
      ids |-> [i \in Inst |-> -1], issued |-> [i \in Inst |-> << >>],
      ticks |-> [i \in Inst |-> 0],
      intervalled |-> [i \in Inst |-> EmptyObj],
      eventData |-> Put(EmptyObj, ChatEvent, [message |-> ""]),
      listeners |-> << >>, executing |-> << >>, components |-> World,
      componentData |-> EmptyObj, queries |-> << >>,
      promises |-> << >>, microtasks |-> << >>, calls |-> << >>, sent |-> << >>,
      hostCalls |-> << >>,
      ncalls |-> [n \in UserNames |-> 0], err |-> "", ret |-> Undef,
      lastOp |-> Op("init", 1, EmptyObj),
      timers |-> [n \in TimerNames |-> NoTimer],
      fired |-> [n \in TimerNames |-> {}],
      queue |-> << >>, exc |-> "", iterable |-> EmptyObj, alias |-> FALSE,
      keepsFields |-> FALSE, refuses |-> FALSE ]

\* one server-side wrapper constructed with the default bedspace
Booted == Deliver(Construct(Fresh, 1, "server", "devbed"))

InitFrom(s) ==
    /\ version = s.version
    /\ players = s.players
    /\ playerObj = s.playerObj
    /\ present = s.present
    /\ scoreboard = s.scoreboard
    /\ system = s.system
    /\ hooks = s.hooks
    /\ lastIndex = s.lastIndex
    /\ systemType = s.systemType
    /\ bedspace = s.bedspace
    /\ callbacks = s.callbacks
    /\ defaultData = s.defaultData
    /\ ids = s.ids
    /\ issued = s.issued
    /\ ticks = s.ticks
    /\ intervalled = s.intervalled
    /\ eventData = s.eventData
    /\ listeners = s.listeners
    /\ executing = s.executing
    /\ components = s.components
    /\ componentData = s.componentData
    /\ queries = s.queries
    /\ promises = s.promises
    /\ microtasks = s.microtasks
    /\ calls = << >>
    /\ sent = << >>
    /\ hostCalls = << >>
    /\ ncalls = s.ncalls
    /\ err = ""
    /\ ret = Undef
    /\ lastOp = s.lastOp
    /\ timers = s.timers
    /\ fired = s.fired
    /\ ops = [reg |-> 0, off |-> 0, trig |-> 0, cmd |-> 0, cb |-> 0, comp |-> 0, join |-> 0,
             set |-> 0, life |-> 0,
             made |-> 0]

----------------------------------------------------------------------------
(* Timer operations of instance 1 and the host's update calls. *)

TimerTimes == 0 .. 2

MsTimes == {25}

\* the registration is still in the table
Live(name) ==
    /\ timers[name].kind # "none"
    /\ timers[name].id \in DOMAIN intervalled[1]
    /\ intervalled[1][timers[name].id].func.name = name

Registered(s, name, kind, time, unit) ==
    [s EXCEPT !.timers[name] = [kind |-> kind, id |-> NextTimerId(intervalled[1]),
                                at |-> ticks[1], time |-> time, unit |-> unit,
                                cleared |-> FALSE]]

SetIntervalStep ==
    \E name \in TimerNames, unit \in {"ticks", "ms"} :
      \E time \in IF unit = "ticks" THEN TimerTimes ELSE MsTimes :
        /\ timers[name].kind = "none"
        /\ Commit(Registered(SetInterval(St, 1, Tick(name), time, unit),
                             name, "interval", time, unit),
                  Op("setInterval", 1, [name |-> name]))
        /\ UNCHANGED ops

SetTimeoutStep ==
    \E name \in TimerNames, unit \in {"ticks", "ms"} :
      \E time \in IF unit = "ticks" THEN TimerTimes ELSE MsTimes :
        /\ timers[name].kind = "none"
        /\ Commit(Registered(SetTimeout(St, 1, name, time, unit),
                             name, "timeout", time, unit),
                  Op("setTimeout", 1, [name |-> name]))
        /\ UNCHANGED ops

SetImmediateStep ==
    \E name \in TimerNames :
        /\ timers[name].kind = "none"
        /\ Commit(Registered(SetImmediate(St, 1, name), name, "immediate", 0, "ms"),
                  Op("setImmediate", 1, [name |-> name]))
        /\ UNCHANGED ops

\* ids handed out by setInterval / setTimeout and still in the table
IssuedIds == {timers[n].id : n \in {m \in TimerNames : Live(m)}}

ClearIntervalStep ==
    \E id \in {Undef} \cup {Num(k) : k \in IssuedIds} :
        LET s == ClearInterval(St, 1, id)
            g == [s EXCEPT !.timers =
                     [n \in TimerNames |->
                        IF Live(n) /\ (id.t # "num" \/ timers[n].id = id.v)
                        THEN [timers[n] EXCEPT !.cleared = TRUE] ELSE timers[n]]]
        IN /\ Commit(g, Op("clearInterval", 1, [id |-> id]))
           /\ UNCHANGED ops

\* the host calls the update hook of system object 1
UpdateStep ==
    /\ \A i \in Inst : ticks[i] < MaxTicks
    /\ Commit(Deliver(Update(St, hooks[1])), Op("update", 1, EmptyObj))
    /\ UNCHANGED ops

InitTimers == InitFrom(Booted)

NextTimers ==
    \/ SetIntervalStep
    \/ SetTimeoutStep
    \/ SetImmediateStep
    \/ ClearIntervalStep
    \/ UpdateStep

SpecTimers == InitTimers /\ [][NextTimers]_vars

----------------------------------------------------------------------------
(* Event operations of instance 1 (a server-side wrapper, bedspace devbed). *)

Ping == Local("ping")

Pong == Local("pong")

PingPong == Local("ping pong")

CustomPing == Ns("custom", "ping")

\* on(event, callback)
OnStep ==
    \E a \in { <<Ping, User("c")>>, <<Ping, User("d")>>, <<Ping, Responder("h")>>,
               <<PingPong, User("c")>>, <<CustomPing, Responder("h")>> } :
        /\ ops.reg < MaxRegs
        /\ Commit(On(St, 1, a[1], a[2]), Op("on", 1, [event |-> a[1], cb |-> Fn(a[2])]))
        /\ ops' = [ops EXCEPT !.reg = @ + 1]

\* once(event, callback?)
OnceStep ==
    \E a \in { <<PingPong, Fn(User("e"))>>, <<Ping, Undef>> } :
        /\ ops.reg < MaxRegs
        /\ Commit(Once(St, 1, a[1], a[2]), Op("once", 1, [event |-> a[1], cb |-> a[2]]))
        /\ ops' = [ops EXCEPT !.reg = @ + 1]

\* off(event, callback?)
OffStep ==
    \E a \in { <<Ping, Fn(User("c"))>>, <<PingPong, Fn(User("c"))>>, <<Ping, Undef>> } :
        /\ ops.off < MaxOffs
        /\ Commit(Off(St, 1, a[1], a[2]),
                  Op("off", 1, [event |-> a[1], cb |-> a[2],
                                removed |-> Off(St, 1, a[1], a[2]).callbacks # callbacks]))
        /\ ops' = [ops EXCEPT !.off = @ + 1]

\* newEvent(event, defaultData) for a custom event
NewEventStep ==
    /\ Ping \notin DOMAIN defaultData[1]
    /\ Commit(NewEvent(St, 1, Ping, [x |-> 1]),
              Op("newEvent", 1, [event |-> Ping, data |-> Obj([x |-> 1])]))
    /\ UNCHANGED ops

\* the once() promises whose handleFire is registered for the name see a trigger
Triggered(s, name) ==
    [s EXCEPT !.promises =
        [p \in DOMAIN s.promises |->
            IF /\ name \in DOMAIN s.callbacks[1]
               /\ \E k \in DOMAIN s.callbacks[1][name] :
                      /\ s.callbacks[1][name][k].kind = "handleFire"
                      /\ s.callbacks[1][name][k].pid = p
            THEN [s.promises[p] EXCEPT !.trigs = @ + 1] ELSE s.promises[p]]]

\* trigger(name, data, callback?), and the host delivering what it broadcasts
TriggerStep ==
    \E name \in {Ping, Pong, CustomPing}, cb \in {Undef, Fn(User("r"))} :
        /\ ops.trig < MaxTrigs
        /\ Commit(Deliver(Trigger(Triggered(St, name), 1, name, Obj([n |-> 5]), cb)),
                  Op("trigger", 1, [name |-> name, data |-> Obj([n |-> 5]), cb |-> cb]))
        /\ ops' = [ops EXCEPT !.trig = @ + 1]

\* a (val) => cb(val) reaction of maybe() runs
RunReaction(s) ==
    LET m == Head(s.microtasks)
        s1 == [s EXCEPT !.microtasks = Tail(@), !.promises[m.pid].ran = @ + 1]
    IN Invoke(s1, 1, m.cb, m.val, NoName)

MicrotaskStep ==
    /\ microtasks # << >>
    /\ Commit(Deliver(RunReaction(St)), Op("reaction", 1, [pid |-> Head(microtasks).pid]))
    /\ UNCHANGED ops

InitEvents == InitFrom(Booted)

NextEvents ==
    \/ OnStep
    \/ OnceStep
    \/ OffStep
    \/ NewEventStep
    \/ TriggerStep
    \/ MicrotaskStep

SpecEvents == InitEvents /\ [][NextEvents]_vars

\* registration, triggering and promise reactions only
NextReply ==
    \/ OnStep
    \/ OnceStep
    \/ TriggerStep
    \/ MicrotaskStep

SpecReply == InitEvents /\ [][NextReply]_vars

----------------------------------------------------------------------------
(* Commands issued on a server-side wrapper (instance 1) and on a           *)
(* client-side wrapper (instance 2) that share the bedspace.                *)

SayHi == << "say", "hi" >>

\* what the host hands to the callback of executeCommand
Result == [statusCode |-> 0, matches |-> FALSE, statusMessage |-> << "ok" >>]

BlockIsAir ==
    [statusCode |-> 0, matches |-> TRUE,
     statusMessage |-> << "Successfully", "found", "the", "block", "at", "0,0,0." >>]

BlockIsStone ==
    [statusCode |-> -1, matches |-> FALSE,
     statusMessage |-> << "The", "block", "at", "0,0,0", "is", "Stone", "(expected", "Air)." >>]

OutsideWorld ==
    [statusCode |-> -1, matches |-> FALSE,
     statusMessage |-> << "Cannot", "test", "for", "block", "outside", "of", "the", "world" >>]

\* the answers the host can give to a command
Results(command) ==
    IF command # << >> /\ Head(command) = "testforblock"
    THEN {BlockIsAir, BlockIsStone, OutsideWorld}
    ELSE {Result}

\* cmd(command, callbackOrAs?, callback?)
CmdStep ==
    \E i \in Inst, command \in {Str(SayHi), Str(<< "/" >> \o SayHi), Arr(SayHi)},
       a \in { << Undef, Undef >>, << Fn(User("k")), Undef >>,
               << Str("steve"), Undef >>, << Str("steve"), Fn(User("k")) >>,
               << Arr(<< "steve", "alex" >>), Fn(User("k")) >> } :
        /\ ops.cmd < MaxCmds
        /\ Commit(Deliver(Cmd(St, i, command, a[1], a[2])),
                  Op("cmd", i, [command |-> command, callbackOrAs |-> a[1], callback |-> a[2],
                                hasCallback |-> a[1].t = "fn" \/ a[2].t = "fn"]))
        /\ ops' = [ops EXCEPT !.cmd = @ + 1,
                              !.cb = IF a[1].t = "fn" \/ a[2].t = "fn" THEN @ + 1 ELSE @]

\* the host has run a command and calls ({ data }) => resolve(data)
HostExecuted(s, result) ==
    LET e == Head(s.executing)
    IN Resolve([s EXCEPT !.executing = Tail(@)], e.pid, Obj(result))

HostExecutedStep ==
    \E result \in Results(IF executing # << >> THEN Head(executing).command ELSE << >>) :
        /\ executing # << >>
        /\ Commit(Deliver(HostExecuted(St, result)),
                  Op("executed", Head(executing).i, [command |-> Head(executing).command]))
        /\ UNCHANGED ops

InitCmd == InitFrom(Deliver(Construct(Booted, 2, "client", "devbed")))

NextCmd ==
    \/ CmdStep
    \/ HostExecutedStep
    \/ MicrotaskStep

SpecCmd == InitCmd /\ [][NextCmd]_vars

----------------------------------------------------------------------------
(* Block queries made on the server-side and on the client-side wrapper.    *)

\* blockAt(coords, callback?)
BlockAtStep ==
    \E i \in Inst, callback \in {Undef, Fn(User("k"))} :
        /\ ops.cmd < MaxCmds
        /\ Commit(Deliver(BlockAt(St, i, << 0, 0, 0 >>, callback)),
                  Op("blockAt", i, [callback |-> callback]))
        /\ ops' = [ops EXCEPT !.cmd = @ + 1,
                              !.cb = IF callback.t = "fn" THEN @ + 1 ELSE @]

InitBlock == InitFrom(Deliver(Construct(Booted, 2, "client", "devbed")))

NextBlock ==
    \/ BlockAtStep
    \/ HostExecutedStep
    \/ MicrotaskStep

SpecBlock == InitBlock /\ [][NextBlock]_vars

----------------------------------------------------------------------------
(* A second wrapper (instance 2) constructed against the host on which      *)
(* instance 1 is already running and exchanging events.                     *)

Bedspaces == {"devbed", "other"}

\* new DevBed({ bedspace, obj }) for instance 2
ConstructStep ==
    \E type \in {"client", "server"}, bs \in Bedspaces :
        /\ systemType[2] = "none"
        /\ Commit(Deliver(Construct(St, 2, type, bs)),
                  Op("construct", 2, [type |-> type, bedspace |-> bs]))
        /\ UNCHANGED ops

InitCtor == InitFrom(Booted)

NextCtor ==
    \/ ConstructStep
    \/ OnStep
    \/ TriggerStep

SpecCtor == InitCtor /\ [][NextCtor]_vars

----------------------------------------------------------------------------
(* Components registered by instance 1 and used on the entities of the      *)
(* world.                                                                   *)

Entities == {"player", "pig"}

\* the ids of the handles component() has returned so far
Handles == DOMAIN componentData

\* component(data)
ComponentStep ==
    \E data \in {Obj([hp |-> 1]), Obj([hp |-> 1, x |-> 0])}, no \in BOOLEAN :
        /\ ops.made < MaxComps
        /\ Commit(Component([St EXCEPT !.refuses = no], 1, data),
                  Op("component", 1, [data |-> data, refuses |-> no]))
        /\ ops' = [ops EXCEPT !.made = @ + 1]

\* handle.add(ent, existsOk?)
ComponentAddStep ==
    \E id \in Handles, ent \in Entities, existsOk \in BOOLEAN :
        /\ ops.comp < MaxCompOps
        /\ Commit(ComponentAdd(St, id, ent, existsOk),
                  Op("add", 1, [id |-> id, ent |-> ent, existsOk |-> existsOk]))
        /\ ops' = [ops EXCEPT !.comp = @ + 1]

\* handle.has(ent)
ComponentHasStep ==
    \E id \in Handles, ent \in Entities :
        /\ ops.comp < MaxCompOps
        /\ Commit(ComponentHas(St, id, ent), Op("has", 1, [id |-> id, ent |-> ent]))
        /\ ops' = [ops EXCEPT !.comp = @ + 1]

\* handle.data(ent, data?); prior is what a read returned just before the call
ComponentDataStep ==
    \E id \in Handles, ent \in Entities, keeps \in BOOLEAN,
       data \in {Undef, Obj([x |-> 1]), Fn(SetHp)} :
        /\ ops.comp < MaxCompOps
        /\ Commit(ComponentData([St EXCEPT !.keepsFields = keeps], id, ent, data),
                  Op("data", 1, [id |-> id, ent |-> ent, data |-> data,
                                 prior |-> HostGetComponent(St, ent, id)]))
        /\ ops' = [ops EXCEPT !.comp = @ + 1]

\* handle.reload(ent)
ComponentReloadStep ==
    \E id \in Handles, ent \in Entities, keeps \in BOOLEAN :
        /\ ops.comp < MaxCompOps
        /\ Commit(ComponentReload([St EXCEPT !.keepsFields = keeps], id, ent),
                  Op("reload", 1, [id |-> id, ent |-> ent]))
        /\ ops' = [ops EXCEPT !.comp = @ + 1]

\* handle.remove(ent)
ComponentRemoveStep ==
    \E id \in Handles, ent \in Entities :
        /\ ops.comp < MaxCompOps
        /\ Commit(ComponentRemove(St, id, ent), Op("remove", 1, [id |-> id, ent |-> ent]))
        /\ ops' = [ops EXCEPT !.comp = @ + 1]

InitComp == InitFrom(Booted)

NextComp ==
    \/ ComponentStep
    \/ ComponentAddStep
    \/ ComponentHasStep
    \/ ComponentDataStep
    \/ ComponentReloadStep
    \/ ComponentRemoveStep

SpecComp == InitComp /\ [][NextComp]_vars

----------------------------------------------------------------------------
(* The entity, component and query helpers of instance 1 together.  Where   *)
(* the host may say no for reasons of its own, `no` is its answer.          *)

\* entity(identifier) and item(identifier)
EntityStep ==
    \E kind \in {"entity", "item"}, no \in BOOLEAN :
        /\ ops.comp < MaxCompOps
        /\ Commit(IF kind = "entity"
                  THEN Entity([St EXCEPT !.refuses = no], "minecraft:pig")
                  ELSE Item([St EXCEPT !.refuses = no], "minecraft:apple"),
                  Op(kind, 1, [refuses |-> no]))
        /\ ops' = [ops EXCEPT !.comp = @ + 1]

\* getComponent(id, ent)
GetComponentStep ==
    \E id \in Handles \cup {Nameable}, ent \in Entities :
        /\ ops.comp < MaxCompOps
        /\ Commit(GetComponent(St, id, ent), Op("getComponent", 1, [id |-> id, ent |-> ent]))
        /\ ops' = [ops EXCEPT !.comp = @ + 1]

\* query(component)
QueryStep ==
    \E no \in BOOLEAN :
        /\ ops.comp < MaxCompOps
        /\ Commit(Query([St EXCEPT !.refuses = no], Position),
                  Op("query", 1, [refuses |-> no]))
        /\ ops' = [ops EXCEPT !.comp = @ + 1]

\* handle.filter(identifier)
QueryFilterStep ==
    \E q \in DOMAIN queries :
        /\ ops.comp < MaxCompOps
        /\ Commit(QueryFilter(St, q, Nameable), Op("filter", 1, [q |-> q]))
        /\ ops' = [ops EXCEPT !.comp = @ + 1]

\* handle.search(cfields?)
QuerySearchStep ==
    \E q \in DOMAIN queries, no \in BOOLEAN,
       cfields \in {Undef, Arr(<< 1, 3, 0, 0, 0, 0 >>)} :
        /\ ops.comp < MaxCompOps
        /\ Commit(QuerySearch([St EXCEPT !.refuses = no], q, cfields),
                  Op("search", 1, [q |-> q, refuses |-> no]))
        /\ ops' = [ops EXCEPT !.comp = @ + 1]

\* radius(ent, radius)
RadiusStep ==
    \E ent \in DOMAIN components, no \in BOOLEAN :
        /\ ops.comp < MaxCompOps
        /\ Commit(Radius([St EXCEPT !.refuses = no], ent, 1),
                  Op("radius", 1, [ent |-> ent, refuses |-> no]))
        /\ ops' = [ops EXCEPT !.comp = @ + 1]

InitHelpers == InitFrom(Booted)

NextHelpers ==
    \/ ComponentStep
    \/ ComponentAddStep
    \/ ComponentDataStep
    \/ ComponentReloadStep
    \/ ComponentRemoveStep
    \/ EntityStep
    \/ GetComponentStep
    \/ QueryStep
    \/ QueryFilterStep
    \/ QuerySearchStep
    \/ RadiusStep

SpecHelpers == InitHelpers /\ [][NextHelpers]_vars

----------------------------------------------------------------------------
(* The callers of getId on instance 1: triggers of custom names, the        *)
(* replies of a handler, and component().                                   *)

\* instance 1 with on("ping", h) done, h a handler that responds
InitIds == InitFrom(On(Booted, 1, Ping, Responder("h")))

NextIds ==
    \/ TriggerStep
    \/ ComponentStep

SpecIds == InitIds /\ [][NextIds]_vars

----------------------------------------------------------------------------
(* Registration, removal and dispatch on instance 1, without the reactions  *)
(* of promises.                                                             *)

InitOrder == InitFrom(Booted)

NextOrder ==
    \/ OnStep
    \/ OnceStep
    \/ OffStep
    \/ TriggerStep

SpecOrder == InitOrder /\ [][NextOrder]_vars

----------------------------------------------------------------------------
(* The update hook with callbacks of "first_tick" and "update" registered. *)

FirstTick == Local("first_tick")

UpdateEvent == Local("update")

\* on("first_tick", c), on("first_tick", d), on("update", k)
OnTickStep ==
    \E a \in { <<FirstTick, User("c")>>, <<FirstTick, User("d")>>, <<UpdateEvent, User("k")>> } :
        /\ ops.reg < MaxRegs
        /\ Commit(On(St, 1, a[1], a[2]), Op("on", 1, [event |-> a[1], cb |-> Fn(a[2])]))
        /\ ops' = [ops EXCEPT !.reg = @ + 1]

\* once("first_tick"), the promise form
OnceTickStep ==
    /\ ops.reg < MaxRegs
    /\ Commit(Once(St, 1, FirstTick, Undef), Op("once", 1, [event |-> FirstTick, cb |-> Undef]))
    /\ ops' = [ops EXCEPT !.reg = @ + 1]

\* off("first_tick"), off("update")
OffTickStep ==
    \E event \in {FirstTick, UpdateEvent} :
        /\ ops.off < MaxOffs
        /\ Commit(Off(St, 1, event, Undef), Op("off", 1, [event |-> event, cb |-> Undef]))
        /\ ops' = [ops EXCEPT !.off = @ + 1]

InitTick == InitFrom(Booted)

NextTick ==
    \/ OnTickStep
    \/ OnceTickStep
    \/ SetIntervalStep
    \/ UpdateStep

SpecTick == InitTick /\ [][NextTick]_vars

\* registrations and removals on the names of the update hook, no timers
NextLazy ==
    \/ OnTickStep
    \/ OnceTickStep
    \/ OffTickStep
    \/ UpdateStep

SpecLazy == InitTick /\ [][NextLazy]_vars

----------------------------------------------------------------------------
(* Players joining and leaving: instance 1 is the server-side wrapper and    *)
(* instance 2 the client-side wrapper of the player the host names.         *)

PlayerEntities == {"player", "guest"}

\* the world with a second player, named alex
TwoPlayers(s) ==
    [s EXCEPT !.components =
        Put(@, "guest", Put(EmptyObj, Nameable, HostComponent(Nameable, Obj([name |-> "alex"]))))]

Username(player) == components[player][Nameable].data.v.name

\* the host delivers minecraft:client_entered_world to the client script
EnteredWorldStep ==
    \E player \in PlayerEntities :
        /\ ops.join < MaxJoins
        /\ Commit(Deliver(BroadcastEvent([St EXCEPT !.present = @ \cup {Username(player)}],
                                         Ns("minecraft", "client_entered_world"),
                                         [player |-> player])),
                  Op("enteredWorld", 2, [player |-> player]))
        /\ ops' = [ops EXCEPT !.join = @ + 1]

\* the host calls system.shutdown of the client script
ShutdownStep ==
    \E player \in PlayerEntities :
        /\ ops.join < MaxJoins
        /\ Commit(Deliver(Shutdown([St EXCEPT !.present = @ \ {Username(player)}], 2, player)),
                  Op("shutdown", 2, [player |-> player]))
        /\ ops' = [ops EXCEPT !.join = @ + 1]

InitPlayers == InitFrom(TwoPlayers(Deliver(Construct(Booted, 2, "client", "devbed"))))

NextPlayers ==
    \/ EnteredWorldStep
    \/ ShutdownStep

SpecPlayers == InitPlayers /\ [][NextPlayers]_vars

----------------------------------------------------------------------------
(* Assignments to the scoreboard of instance 1. *)

\* "kills", " a", "ab ", "a:" and a name of 17 characters
ObjectiveNames ==
    { << "k", "i", "l", "l", "s" >>, << " ", "a" >>, << "a", "b", " " >>, << "a", ":" >>,
      [k \in 1 .. 17 |-> "a"] }

Objectives ==
    { EmptyObj, [display |-> "belowname"],
      [name |-> "Kills", display |-> "sidebar", order |-> "ascending",
       players |-> << [n |-> "steve", v |-> 1] >>] }

\* scoreboard[name] = val
ScoreboardSetStep ==
    \E name \in ObjectiveNames, val \in Objectives :
        /\ ops.set < MaxSets
        /\ Commit(ScoreboardSet(St, 1, name, val),
                  Op("scoreboardSet", 1, [name |-> name, val |-> val]))
        /\ ops' = [ops EXCEPT !.set = @ + 1]

InitScore == InitFrom(Booted)

NextScore ==
    \/ ScoreboardSetStep
    \/ HostExecutedStep

SpecScore == InitScore /\ [][NextScore]_vars

----------------------------------------------------------------------------
(* The hooks of system object 1 when a second wrapper is constructed from   *)
(* instance 1.                                                              *)

\* on("initialize", c), on("update", d), on("first_tick", e), on("shutdown", k)
\* on instance 1, each name once
OnHookStep ==
    \E a \in { <<Local("initialize"), User("c")>>, <<UpdateEvent, User("d")>>,
               <<FirstTick, User("e")>>, <<Local("shutdown"), User("k")>> } :
        /\ ops.reg < MaxRegs
        /\ a[1] \notin DOMAIN callbacks[1]
        /\ Commit(On(St, 1, a[1], a[2]), Op("on", 1, [event |-> a[1], cb |-> Fn(a[2])]))
        /\ ops' = [ops EXCEPT !.reg = @ + 1]

\* new DevBed({ bedspace, obj: bed }) for bed the instance 1
ConstructFromStep ==
    \E bs \in Bedspaces :
        /\ systemType[2] = "none"
        /\ Commit(Deliver(ConstructFrom(St, 2, 1, bs)),
                  Op("constructFrom", 2, [from |-> 1, bedspace |-> bs]))
        /\ UNCHANGED ops

\* the host calls the initialize hook of system object 1
InitializeStep ==
    /\ ops.life = 0
    /\ \A i \in Inst : ticks[i] = 0
    /\ Commit(Deliver(Initialize(St, hooks[1])), Op("initialize", 1, EmptyObj))
    /\ ops' = [ops EXCEPT !.life = 1]

\* the host calls the shutdown hook of system object 1
SystemShutdownStep ==
    /\ ops.life < 2
    /\ Commit(Deliver(Shutdown(St, hooks[1], "player")), Op("shutdown", 1, EmptyObj))
    /\ ops' = [ops EXCEPT !.life = 2]

\* instance 1 after setInterval(f, 1, "ticks")
InitHooks ==
    InitFrom([SetInterval(Booted, 1, Tick(1), 1, "ticks")
              EXCEPT !.timers[1] = [kind |-> "interval", id |-> 0, at |-> 0, time |-> 1,
                                    unit |-> "ticks", cleared |-> FALSE]])

NextHooks ==
    \/ OnHookStep
    \/ ConstructFromStep
    \/ InitializeStep
    \/ UpdateStep
    \/ SystemShutdownStep

SpecHooks == InitHooks /\ [][NextHooks]_vars

----------------------------------------------------------------------------
(* The two overloads of trigger on a local name. *)

\* trigger("ping", r): the callback passed as the second argument, no data
TriggerCallbackStep ==
    /\ ops.trig < MaxTrigs
    /\ Commit(Deliver(Trigger(St, 1, Ping, Fn(User("r")), Undef)),
              Op("trigger", 1, [name |-> Ping, data |-> Fn(User("r")), cb |-> Undef]))
    /\ ops' = [ops EXCEPT !.trig = @ + 1]

NextOverload ==
    \/ OnStep
    \/ TriggerStep
    \/ TriggerCallbackStep

SpecOverload == InitEvents /\ [][NextOverload]_vars

----------------------------------------------------------------------------
(* Intervals whose callback clears entries of the interval table. *)

\* setInterval(() => clearInterval(target), time, "ticks")
SetClearerStep ==
    \E name \in TimerNames, target \in {AllTimers} \cup (0 .. MaxTimers - 1), time \in {1, 2} :
        /\ timers[name].kind = "none"
        /\ Commit(Registered(SetInterval(St, 1, Clearer(name, target), time, "ticks"),
                             name, "clearer", time, "ticks"),
                  Op("setInterval", 1, [name |-> name, clears |-> target]))
        /\ UNCHANGED ops

NextClear ==
    \/ SetIntervalStep
    \/ SetClearerStep
    \/ OnTickStep
    \/ UpdateStep

SpecClear == InitTick /\ [][NextClear]_vars

----------------------------------------------------------------------------
(* The event operations on a host-level name, "custom:ping". *)

\* on("custom:ping", c), on("custom:ping", d)
OnCustomStep ==
    \E cb \in {User("c"), User("d")} :
        /\ ops.reg < MaxRegs
        /\ Commit(On(St, 1, CustomPing, cb), Op("on", 1, [event |-> CustomPing, cb |-> Fn(cb)]))
        /\ ops' = [ops EXCEPT !.reg = @ + 1]

\* once("custom:ping"), the promise form
OnceCustomStep ==
    /\ ops.reg < MaxRegs
    /\ Commit(Once(St, 1, CustomPing, Undef), Op("once", 1, [event |-> CustomPing, cb |-> Undef]))
    /\ ops' = [ops EXCEPT !.reg = @ + 1]

\* off("custom:ping", c), off("custom:ping")
OffCustomStep ==
    \E cb \in {Fn(User("c")), Undef} :
        /\ ops.off < MaxOffs
        /\ Commit(Off(St, 1, CustomPing, cb), Op("off", 1, [event |-> CustomPing, cb |-> cb]))
        /\ ops' = [ops EXCEPT !.off = @ + 1]

\* trigger("custom:ping", {n: 5}), and the host delivering the event
TriggerCustomStep ==
    /\ ops.trig < MaxTrigs
    /\ Commit(Deliver(Trigger(St, 1, CustomPing, Obj([n |-> 5]), Undef)),
              Op("trigger", 1, [name |-> CustomPing, data |-> Obj([n |-> 5]), cb |-> Undef]))
    /\ ops' = [ops EXCEPT !.trig = @ + 1]

InitCustom == InitFrom(Booted)

NextCustom ==
    \/ OnCustomStep
    \/ OnceCustomStep
    \/ OffCustomStep
    \/ TriggerCustomStep

SpecCustom == InitCustom /\ [][NextCustom]_vars

----------------------------------------------------------------------------
(* Setting the targeted API version and constructing wrappers from client   *)
(* and server objects.                                                      *)

Versions == 0 .. MaxVersion

\* DevBed.version = { major, minor }
SetVersionStep ==
    \E major \in Versions, minor \in Versions :
        /\ version # [major |-> major, minor |-> minor]
        /\ Commit([St EXCEPT !.version = [major |-> major, minor |-> minor]],
                  Op("setVersion", 0, [major |-> major, minor |-> minor]))
        /\ UNCHANGED ops

\* new DevBed({ bedspace, obj }) for an instance not constructed yet
NewDevBedStep ==
    \E i \in Inst, type \in {"client", "server"}, bs \in Bedspaces :
        /\ systemType[i] = "none"
        /\ Commit(Deliver(Construct(St, i, type, bs)),
                  Op("construct", i, [type |-> type, bedspace |-> bs]))
        /\ UNCHANGED ops

InitVersion == InitFrom(Fresh)

NextVersion ==
    \/ SetVersionStep
    \/ NewDevBedStep

SpecVersion == InitVersion /\ [][NextVersion]_vars

----------------------------------------------------------------------------
(* Claims about the timers (checked under SpecTimers). *)

\* C7: clearInterval(id) with an id handed out by setInterval/setTimeout
\* removes exactly that entry from the interval table and leaves every
\* other entry; clearInterval() with no id removes all entries.
C7_ClearRemovesExactlyThatEntry ==
    [][lastOp'.op = "clearInterval" =>
         intervalled'[1] = IF lastOp'.args.id.t = "num"
                           THEN Drop(intervalled[1], lastOp'.args.id.v)
                           ELSE EmptyObj]_vars

\* the ticks at which an interval registered at tick `at` with period d is due
DueTicks(at, d, now) == {t \in 1 .. now : t > at /\ (t - at) % d = 0}

\* C8: an interval registered with setInterval(cb, d, "ticks"), d >= 1, and
\* never cleared is invoked exactly on every d-th update after registration.
C8_IntervalFiresEveryDth ==
    \A n \in TimerNames :
        (/\ timers[n].kind = "interval"
         /\ timers[n].unit = "ticks"
         /\ timers[n].time >= 1
         /\ ~timers[n].cleared)
        => fired[n] = DueTicks(timers[n].at, timers[n].time, ticks[1])

\* C9: a timeout registered with setTimeout(cb, t, "ticks") (or setImmediate)
\* and not cleared beforehand is invoked exactly once, on the t-th update
\* after registration (the next update for t = 0), and is gone from the
\* table after firing.
C9_TimeoutFiresOnce ==
    \A n \in TimerNames :
        (/\ \/ timers[n].kind = "timeout" /\ timers[n].unit = "ticks"
            \/ timers[n].kind = "immediate"
         /\ ~timers[n].cleared)
        => LET due == timers[n].at + (IF timers[n].time = 0 THEN 1 ELSE timers[n].time)
           IN /\ fired[n] = IF ticks[1] >= due THEN {due} ELSE {}
              /\ fired[n] # {} => ~Live(n)


----------------------------------------------------------------------------
(* Claims about the event bridge (checked under SpecEvents). *)

Count(seq, Test(_)) == Len(SelectSeq(seq, Test))

Has(seq, x) == \E k \in DOMAIN seq : seq[k] = x

\* the callbacks registered for a name (none when the name was never seen)
Registry(cbs, name) == IF name \in DOMAIN cbs THEN cbs[name] ELSE << >>

\* the payload a callback of name is to receive for trigger(name, data)
Expected(name, data) ==
    Merge(IF name \in DOMAIN defaultData[1] THEN defaultData[1][name] ELSE EmptyObj, data)

\* C1: after on(n, c), trigger(n, data) invokes c exactly once, with data
\* merged over the defaults registered for n, before trigger returns (no
\* callback of n raising).
C1_OnThenTriggerInvokesOnce ==
    [][(lastOp'.op = "trigger" /\ err' = "") =>
         \A c \in {"c", "d"} :
            Count(Registry(callbacks[1], lastOp'.args.name), LAMBDA x : x = User(c)) = 1
            => Count(calls', LAMBDA k : k.cb = c /\ k.data = Expected(lastOp'.args.name,
                                                                     lastOp'.args.data.v)) = 1]_vars

\* C2 (as stated): when a handler h registered with on(n, h) answers through
\* respond, trigger(n, {n: 5}, cb) gets cb invoked with {pong: 6}, for every
\* name n, "custom:ping" included.
C2_ReplyReachesCallback ==
    [][(/\ lastOp'.op = "trigger"
        /\ lastOp'.args.cb.t = "fn"
        /\ Has(Registry(callbacks[1], lastOp'.args.name), Responder("h")))
       => Count(calls', LAMBDA k : k.cb = "r" /\ k.data = [pong |-> 6]) >= 1]_vars

\* C2 (amended): for a name without ":", each time the dispatch of
\* trigger(n, d, cb) invokes h and h answers respond(r) with a plain object
\* r, cb is invoked with exactly r ({pong: 6} for d = {n: 5}); cb is invoked
\* with nothing else.
C2_LocalReplyReachesCallback ==
    [][(/\ lastOp'.op = "trigger"
        /\ lastOp'.args.cb.t = "fn"
        /\ ~HasColon(lastOp'.args.name))
       => /\ Count(calls', LAMBDA k : k.cb = "r" /\ k.data = [pong |-> 6])
               = Count(calls', LAMBDA k : k.cb = "h")
          /\ Count(calls', LAMBDA k : k.cb = "r")
               = Count(calls', LAMBDA k : k.cb = "h")]_vars

\* a local trigger whose handler answered and whose callback got the answer
C2_Witness ==
    /\ lastOp.op = "trigger"
    /\ lastOp.args.name = Ping
    /\ lastOp.args.cb.t = "fn"
    /\ Count(calls, LAMBDA k : k.cb = "h") = 1
    /\ Count(calls, LAMBDA k : k.cb = "r" /\ k.data = [pong |-> 6]) = 1

\* no reaction of the promise is waiting to run
Settled(pid) == \A k \in DOMAIN microtasks : microtasks[k].pid # pid

\* the handleFire of promise pid is registered nowhere
Deregistered(pid) ==
    \A ev \in DOMAIN callbacks[1] :
        \A k \in DOMAIN callbacks[1][ev] :
            ~(callbacks[1][ev][k].kind = "handleFire" /\ callbacks[1][ev][k].pid = pid)

\* C3: once(n, c) gives exactly one invocation of c however many triggers of
\* n follow (n may be a compound of names), and the wrapper is deregistered
\* from every name after its first firing.
C3_OnceInvokesExactlyOnce ==
    \A pid \in DOMAIN promises :
        promises[pid].cb.t = "fn" =>
            /\ promises[pid].ran <= 1
            /\ (promises[pid].trigs >= 1 /\ Settled(pid)) => promises[pid].ran = 1
            /\ promises[pid].state = "resolved" => Deregistered(pid)

\* the names an off(event, ...) call addresses
OffNames(op) == {Split(op.args.event)[k] : k \in DOMAIN Split(op.args.event)}

\* C4: off(n, c) removes exactly c from the callbacks of n; every other
\* callback of n and of every other name stays registered in the same order
\* and still fires; c is not invoked by a dispatch of n that begins later.
C4_OffRemovesExactlyThat ==
    [][/\ (lastOp'.op = "off" /\ lastOp'.args.cb.t = "fn") =>
             /\ DOMAIN callbacks'[1] = DOMAIN callbacks[1]
             /\ \A ev \in DOMAIN callbacks[1] :
                   callbacks'[1][ev] = IF ev \in OffNames(lastOp')
                                       THEN Pull(callbacks[1][ev], lastOp'.args.cb.v)
                                       ELSE callbacks[1][ev]
       /\ (/\ lastOp.op = "off" /\ lastOp.args.cb.t = "fn" /\ lastOp.args.removed
           /\ lastOp'.op = "trigger" /\ lastOp'.args.name \in OffNames(lastOp)
           /\ err' = "") =>
             /\ \A c \in UserNames :
                   Has(Registry(callbacks[1], lastOp'.args.name), User(c))
                   => Count(calls', LAMBDA k : k.cb = c) >= 1
             /\ Count(calls', LAMBDA k : k.cb = lastOp.args.cb.v.name) = 0]_vars

----------------------------------------------------------------------------
(* Claims about the command bridge (checked under SpecCmd). *)

\* C5: cmd without a callback returns a promise that resolves with the
\* host's result; cmd with a callback invokes the callback with the result
\* and returns undefined; never both and never neither, on any system type.
C5_CmdEitherPromiseOrCallback ==
    /\ lastOp.op = "cmd" =>
          IF lastOp.args.hasCallback THEN ret = Undef ELSE ret.t = "promise"
    /\ (executing = << >> /\ microtasks = << >>) =>
          /\ ncalls["k"] = ops.cb
          /\ \A p \in DOMAIN promises : promises[p].state = "resolved"

----------------------------------------------------------------------------
(* Claims about construction (checked under SpecCtor). *)

\* the conflict warnings among the first n messages that the last operation
\* handed to the host
RECURSIVE Warnings(_, _)
Warnings(log, n) ==
    IF n = 0 THEN 0
    ELSE Warnings(log, n - 1) +
         (IF log[n].name = ChatEvent /\ log[n].data.message = ConflictMessage
          THEN 1 ELSE 0)

\* C6 (as stated): constructing a second instance with the bedspace of the
\* first one raises a collision error.
C6_SecondConstructionRaises ==
    (lastOp.op = "construct" /\ lastOp.args.bedspace = bedspace[1]) => err # ""

\* C6 (amended): a second server-side construction with the bedspace of the
\* first instance broadcasts one conflict warning chat message and completes
\* without an error; any other construction broadcasts no warning.
C6_SecondServerConstructionWarns ==
    [][lastOp'.op = "construct" =>
          /\ err' = ""
          /\ systemType'[2] = lastOp'.args.type
          /\ Warnings(sent', Len(sent')) =
                IF lastOp'.args.type = "server" /\ lastOp'.args.bedspace = bedspace[1]
                THEN 1 ELSE 0]_vars

C6_Witness ==
    /\ lastOp.op = "construct"
    /\ lastOp.args.type = "server"
    /\ lastOp.args.bedspace = bedspace[1]
    /\ Warnings(sent, Len(sent)) = 1
    /\ err = ""

----------------------------------------------------------------------------
(* Claims about the component helpers (checked under SpecComp). *)

\* C10: data(entity, {x: 1}) followed by data(entity) returns an object that
\* contains x: 1 together with every field a read returned before the write
\* and the write did not overwrite.
C10_DataRoundTrip ==
    [][(/\ lastOp.op = "data" /\ lastOp.args.data = Obj([x |-> 1]) /\ err = ""
        /\ lastOp'.op = "data" /\ lastOp'.args.data = Undef
        /\ lastOp'.args.id = lastOp.args.id /\ lastOp'.args.ent = lastOp.args.ent)
       => /\ ret'.t = "obj"
          /\ "x" \in DOMAIN ret'.v
          /\ ret'.v.x = 1
          /\ \A f \in DOMAIN lastOp.args.prior.v \ {"x"} :
                f \in DOMAIN ret'.v /\ ret'.v[f] = lastOp.args.prior.v[f]]_vars

\* C11: add(entity, existsOk = false) on an entity that already holds the
\* component raises a TypeError before any host call: createComponent is not
\* called and the host's components are unchanged; with existsOk = true no
\* error is raised.
C11_AddExistingRaisesBeforeMutation ==
    [][(/\ lastOp'.op = "add"
        /\ HostHasComponent(St, lastOp'.args.ent, lastOp'.args.id))
       => IF lastOp'.args.existsOk
          THEN err' = ""
          ELSE /\ err' = "TypeError"
               /\ hostCalls' = << >>
               /\ components' = components
               /\ componentData' = componentData]_vars

C11_Witness ==
    /\ lastOp.op = "add"
    /\ ~lastOp.args.existsOk
    /\ HostHasComponent(St, lastOp.args.ent, lastOp.args.id)
    /\ err = "TypeError"

----------------------------------------------------------------------------
(* Claims about the failure policy of the helpers (checked under            *)
(* SpecHelpers).                                                            *)

\* the step being taken has the component of its entity to work on
ComponentFound == HostHasComponent(St, lastOp'.args.ent, lastOp'.args.id)

\* the step being taken is a helper whose host call returns null
CreationRefused ==
    lastOp'.op \in {"entity", "item", "component", "query"} /\ lastOp'.args.refuses

ComponentMissing ==
    /\ \/ lastOp'.op \in {"getComponent", "reload"}
       \/ lastOp'.op = "data" /\ lastOp'.args.data # Undef
    /\ ~ComponentFound

RadiusRefused ==
    /\ lastOp'.op = "radius"
    /\ lastOp'.args.refuses \/ ~HostHasComponent(St, lastOp'.args.ent, Position)

ReadRefused ==
    \/ lastOp'.op = "data" /\ lastOp'.args.data = Undef /\ ~ComponentFound
    \/ lastOp'.op = "search" /\ lastOp'.args.refuses

\* C12 (as stated): entity and item creation, component registration,
\* getComponent, reload, a data write, query registration and radius raise a
\* ReferenceError when the host returns null; only a data read and
\* query.search return the null.
C12_NullRaisesReferenceError ==
    [][/\ (CreationRefused \/ ComponentMissing \/ RadiusRefused) => err' = "ReferenceError"
       /\ ReadRefused => (err' = "" /\ ret' = Undef)]_vars

\* C12 (amended): as stated, except that radius belongs to the helpers that
\* return the null instead of raising.
C12_NullRaisesExceptReads ==
    [][/\ (CreationRefused \/ ComponentMissing) => err' = "ReferenceError"
       /\ (ReadRefused \/ RadiusRefused) => (err' = "" /\ ret' = Undef)]_vars

C12_Witness ==
    /\ lastOp.op = "entity"
    /\ lastOp.args.refuses
    /\ err = "ReferenceError"
    /\ hostCalls # << >>
    /\ hostCalls[1].fn = "createEntity"

----------------------------------------------------------------------------
(* Claims about block queries (checked under SpecBlock). *)

\* what blockAt is to resolve to for an answer of the host
BlockOf(result) ==
    IF result.matches THEN Str("Air")
    ELSE IF result = BlockIsStone THEN Str("Stone")
    ELSE Undef

\* C13: blockAt never raises and never stays pending: once the host has
\* answered every command and every reaction has run, each promise is
\* resolved, and the promise of blockAt is resolved with "Air", the block
\* name of the answer, or undefined for an answer that fits no pattern.
C13_BlockAtResolves ==
    /\ err = ""
    /\ \A p \in DOMAIN promises :
          (promises[p].cb.t = "fn" /\ promises[p].cb.v.kind = "blockTested"
           /\ promises[p].ran > 0)
          => /\ promises[promises[p].cb.v.pid].state = "resolved"
             /\ promises[promises[p].cb.v.pid].val = BlockOf(promises[p].val.v)
    /\ (executing = << >> /\ microtasks = << >>)
          => \A p \in DOMAIN promises : promises[p].state = "resolved"

----------------------------------------------------------------------------
(* Claims about generated ids (checked under SpecIds). *)

\* C14: the ids an instance generates are pairwise distinct, whatever the
\* interleaving of triggers of custom names and component() calls, and the
\* counter of the instance never decreases.
C14_IdsDistinct ==
    /\ [](\A i \in Inst : \A j, k \in DOMAIN issued[i] :
              j # k => issued[i][j] # issued[i][k])
    /\ [][\A i \in Inst : /\ ids'[i] >= ids[i]
                          /\ Len(issued'[i]) - Len(issued[i]) = ids'[i] - ids[i]]_vars

C14_Witness ==
    /\ Len(issued[1]) >= 3
    /\ componentData # EmptyObj
    /\ \E k \in DOMAIN issued[1] : issued[1][k] \notin DOMAIN componentData
    /\ lastOp.op = "component"

----------------------------------------------------------------------------
(* Claims about the channel of custom events (checked under SpecReply). *)

\* the messages among the first n of log that are on the channel
RECURSIVE OnChannel(_, _, _)
OnChannel(log, n, channel) ==
    IF n = 0 THEN 0
    ELSE OnChannel(log, n - 1, channel) + (IF log[n].name = channel THEN 1 ELSE 0)

----------------------------------------------------------------------------
(* Claims about the order of dispatch (checked under SpecOrder). *)

\* a can be had from b by leaving elements out
RECURSIVE IsSubseq(_, _)
IsSubseq(a, b) ==
    IF a = << >> THEN TRUE
    ELSE IF b = << >> THEN FALSE
    ELSE IF Head(a) = Head(b) THEN IsSubseq(Tail(a), Tail(b))
    ELSE IsSubseq(a, Tail(b))

\* the names of the caller's callbacks in a registry, in order of registration
RECURSIVE NamesOf(_)
NamesOf(cbs) ==
    IF cbs = << >> THEN << >>
    ELSE (IF Head(cbs).kind \in {"user", "responder"} THEN << Head(cbs).name >> ELSE << >>)
         \o NamesOf(Tail(cbs))

\* the names of the callbacks invoked, in order of invocation
RECURSIVE Invoked(_)
Invoked(log) ==
    IF log = << >> THEN << >>
    ELSE (IF log[1].cb \in {"c", "d", "h"} THEN << log[1].cb >> ELSE << >>)
         \o Invoked(Tail(log))

----------------------------------------------------------------------------
(* Claims about relayed commands (checked under SpecCmd). *)

\* the commands handed to executeCommand by instance i in the last step
Executed(log, i) == SelectSeq(log, LAMBDA c : c.fn = "executeCommand" /\ c.args[1] = i)

\* the players a cmd call targets: those of the selector, or one execution
Targets(callbackOrAs) == IF callbackOrAs.t = "arr" THEN Len(callbackOrAs.v) ELSE 1

\* text ends with tail
EndsWith(text, tail) ==
    Len(text) >= Len(tail) /\ SubSeq(text, Len(text) - Len(tail) + 1, Len(text)) = tail

\* C17: cmd on a client instance calls no executeCommand of its own; it
\* broadcasts one "<bedspace>:executeCommand" event with the command, the
\* selector and callback arguments and the local player, and the server
\* instance of the bedspace then executes the command once for each targeted
\* player (once when there is no selector).
C17_ClientCmdIsRelayed ==
    [][(lastOp'.op = "cmd" /\ systemType[lastOp'.i] = "client")
       => LET channel == Ns(bedspace[lastOp'.i], "executeCommand")
              a == lastOp'.args
              done == Executed(hostCalls', 1)
          IN /\ Executed(hostCalls', lastOp'.i) = << >>
             /\ OnChannel(sent', Len(sent'), channel) = 1
             /\ sent'[1] = [name |-> channel,
                            data |-> [command |-> a.command, callbackOrAs |-> a.callbackOrAs,
                                      callback |-> a.callback, player |-> "player"]]
             /\ Len(done) = Targets(a.callbackOrAs)
             /\ \A k \in DOMAIN done :
                   EndsWith(done[k].args[2], StripPrefix(a.command.v, "/"))]_vars

C17_Witness ==
    /\ lastOp.op = "cmd"
    /\ systemType[lastOp.i] = "client"
    /\ lastOp.args.callbackOrAs.t = "arr"
    /\ Len(Executed(hostCalls, 1)) = 2
    /\ Len(executing) >= 2

----------------------------------------------------------------------------
(* Claims about the update hook (checked under SpecTick). *)

\* the positions of the log taken by the callbacks of "first_tick"
FirstTickCalls(log) == {k \in DOMAIN log : log[k].cb \in {"c", "d"}}

\* C18: every host update call adds exactly one to the tick counter, and the
\* callbacks registered for "first_tick" are invoked exactly once each, all
\* in the first update, before the interval entries of that update run and
\* before its "update" callbacks; no later update invokes them.
C18_FirstTickOnceAndFirst ==
    [][lastOp'.op = "update" =>
         /\ ticks'[1] = ticks[1] + 1
         /\ \A c \in {"c", "d"} :
               Count(calls', LAMBDA k : k.cb = c)
                 = IF ticks'[1] = 1
                   THEN Count(Registry(callbacks[1], FirstTick), LAMBDA x : x = User(c))
                   ELSE 0
         /\ \A a \in FirstTickCalls(calls'), b \in DOMAIN calls' \ FirstTickCalls(calls') :
               a < b]_vars

----------------------------------------------------------------------------
(* Claims about host-level event names (checked under SpecCustom). *)

\* the number of host subscriptions of instance i for the name
Subscriptions(ls, i, name) == Count(ls, LAMBDA l : l.i = i /\ l.ev = name)

\* C19: for the host-level name "custom:ping", whatever on/off/once/trigger
\* calls are made, the wrapper has called listenForEvent for that name at
\* most once, and each delivery of the event by the host invokes each callback
\* registered for the name at that moment exactly once.
C19_SubscribedOnceDeliveredOnce ==
    [][/\ Subscriptions(listeners', 1, CustomPing) <= 1
       /\ lastOp'.op = "trigger" =>
             \A c \in {"c", "d"} :
                Count(calls', LAMBDA k : k.cb = c)
                  = Count(Registry(callbacks[1], CustomPing), LAMBDA x : x = User(c))]_vars

----------------------------------------------------------------------------
(* Claims about the registration of the system (checked under SpecVersion). *)

\* the registerSystem calls among the host calls of a step
RegisterCalls(log) == SelectSeq(log, LAMBDA h : h.fn = "registerSystem")

\* C20: a construction from a client or server object calls registerSystem
\* exactly once, with DevBed.version.major as the first argument and
\* DevBed.version.minor as the second, whatever version is configured.
C20_RegistersMajorThenMinor ==
    [][lastOp'.op = "construct" =>
         RegisterCalls(hostCalls') = << [fn |-> "registerSystem",
                                         args |-> << lastOp'.i, version.major, version.minor >>] >>]_vars

----------------------------------------------------------------------------
(* Claims about the callback registry (checked under SpecLazy). *)

----------------------------------------------------------------------------
(* Claims about dispatch under removal (checked under SpecOrder). *)

\* C22: in every dispatch of an event n, each callback of the caller that is
\* registered for n when the dispatch begins (none of them removes itself) is
\* invoked exactly once for each time it is registered, also when a once()
\* wrapper earlier in the list removes itself while the dispatch is running.
C22_DispatchIsComplete ==
    [][(lastOp'.op = "trigger" /\ err' = "") =>
         \A c \in {"c", "d"} :
            Count(calls', LAMBDA k : k.cb = c)
              = Count(Registry(callbacks[1], lastOp'.args.name), LAMBDA x : x = User(c))]_vars

----------------------------------------------------------------------------
(* Claims about host subscriptions (checked under SpecCustom). *)

\* C23: in every reachable state, a host-level name (one with ":") whose
\* callback list is not empty has a host subscription (listenForEvent) of the
\* wrapper, also when off(n) with no callback came before the first on(n, c).
C23_NonEmptyIsSubscribed ==
    \A n \in DOMAIN callbacks[1] :
        (HasColon(n) /\ callbacks[1][n] # << >>) => Subscriptions(listeners, 1, n) >= 1

----------------------------------------------------------------------------
(* Claims about timers firing during an update (checked under SpecTimers). *)

\* the timeout (setTimeout or setImmediate entry) of the name fired at tick now
FiredTimeout(n, now) ==
    /\ timers[n].kind \in {"timeout", "immediate"}
    /\ now \in fired'[n]

\* C24: when timeouts fire in an update, only their own entries leave the
\* interval table: every other interval or timeout registered when the
\* update began, whatever its id, is still registered after the update.
C24_TimeoutRemovesOnlyItself ==
    [][lastOp'.op = "update" =>
         \A n \in TimerNames :
            (Live(n) /\ ~FiredTimeout(n, ticks'[1])) => Live(n)']_vars

----------------------------------------------------------------------------
(* Claims about clearing during an update (checked under SpecClear). *)

\* the timer of log entry b is cleared by the callback of log entry a
ClearedBy(log, a, b) ==
    \E n, m \in TimerNames :
        /\ log[a].cb = ToString(n)
        /\ log[b].cb = ToString(m)
        /\ timers[n].kind = "clearer"
        /\ timers[n].id \in DOMAIN intervalled[1]
        /\ intervalled[1][timers[n].id].func.pid \in {AllTimers, timers[m].id}

\* C25: an update in which a fired callback clears another entry
\* (clearInterval(id)) or all entries (clearInterval()) completes without
\* error, does not invoke a cleared entry after it was cleared, and still runs
\* the callbacks of "update".
C25_UpdateSurvivesClearing ==
    [][lastOp'.op = "update" =>
         /\ err' = ""
         /\ \A a, b \in DOMAIN calls' : ClearedBy(calls', a, b) => ~(a < b)
         /\ Count(calls', LAMBDA k : k.cb = "k")
              = Count(Registry(callbacks[1], UpdateEvent), LAMBDA x : x = User("k"))]_vars

----------------------------------------------------------------------------
(* Claims about the overloads of trigger (checked under SpecOverload). *)

\* C26: for a local name, trigger(name, cb), with the callback as the second
\* argument and no data, registers cb for the reply as trigger(name, {}, cb)
\* does: when a handler h of the name answers respond(r), cb is invoked with r.
C26_CallbackOverloadGetsReply ==
    [][(/\ lastOp'.op = "trigger"
        /\ lastOp'.args.data.t = "fn"
        /\ ~HasColon(lastOp'.args.name)
        /\ Has(Registry(callbacks[1], lastOp'.args.name), Responder("h")))
       => Count(calls', LAMBDA k : k.cb = "r" /\ k.data = ReplyOf("h", EmptyObj).v) >= 1]_vars

----------------------------------------------------------------------------
(* Claims about player tracking (checked under SpecPlayers). *)

\* the usernames for which getPlayer(username) returns an entity
Known(i) == {u \in {"steve", "alex"} : GetPlayer(St, i, u) # Undef}

\* C27: on the server instance, after any sequence of playerJoined and
\* playerLeft events, the usernames in players, the usernames for which
\* getPlayer returns an entity, and the players that have joined and not
\* since left are the same set.
C27_PlayersAreTracked ==
    /\ {players[1][k] : k \in DOMAIN players[1]} = present
    /\ Known(1) = present

----------------------------------------------------------------------------
(* Claims about the scoreboard (checked under SpecScore). *)

\* C28: in every reachable state, whatever names were assigned before,
\* scoreboard[name] = val with a name of more than 16 characters or with a
\* character of the invalid-character class raises a TypeError and issues
\* no scoreboard command.
C28_ValidationIgnoresHistory ==
    [][(/\ lastOp'.op = "scoreboardSet"
        /\ \/ Len(lastOp'.args.name) > 16
           \/ \E m \in DOMAIN lastOp'.args.name : lastOp'.args.name[m] \in InvalidChars)
       => /\ err' = "TypeError"
          /\ Executed(hostCalls', 1) = << >>]_vars

----------------------------------------------------------------------------
(* Claims about a second wrapper on the same system (checked under          *)
(* SpecHooks).                                                              *)

\* the callback of instance 1 registered for the name was invoked as often as
\* it is registered
Reached(name, c) ==
    Count(calls', LAMBDA k : k.i = 1 /\ k.cb = c)
      = Count(Registry(callbacks[1], name), LAMBDA x : x = User(c))

\* C29: with a second DevBed constructed from instance 1 or not, the host's
\* initialize, update and shutdown calls still invoke the callbacks instance 1
\* has for "initialize", "update", "first_tick" (first update only) and
\* "shutdown", and every update adds one to the ticks of instance 1 and
\* advances its interval table.
C29_FirstInstanceUndisturbed ==
    [][/\ lastOp'.op = "initialize" => Reached(Local("initialize"), "c")
       /\ lastOp'.op = "shutdown" => Reached(Local("shutdown"), "k")
       /\ lastOp'.op = "update" =>
             /\ ticks'[1] = ticks[1] + 1
             /\ Reached(UpdateEvent, "d")
             /\ ticks[1] = 0 => Reached(FirstTick, "e")
             /\ \A n \in TimerNames :
                   (Live(n) /\ timers[n].time = 1) => ticks'[1] \in fired'[n]]_vars

----------------------------------------------------------------------------
(* Claims about the number of replies (checked under SpecOverload). *)

\* C30: a trigger(n, d, cb) on a local name invokes cb at most once, however
\* many handlers of n answer through respond, and no later trigger invokes the
\* cb of an earlier one again: in every trigger step the reply callback r runs
\* at most once.
C30_ReplyAtMostOnce ==
    [][(lastOp'.op = "trigger" /\ ~HasColon(lastOp'.args.name))
       => Count(calls', LAMBDA k : k.cb = "r") <= 1]_vars

============================================================================
